---------------------------- MODULE Spec2Model ----------------------------
(***************************************************************************)
(* A model of the Oracle to SQL Server converter                           *)
(* (oracle_to_sqlserver_converter.py).                                     *)
(*                                                                         *)
(* Text is modelled character by character: a Python str is a sequence of  *)
(* one-character strings, so that 'O''Brien' is                            *)
(*   <<"'","O","'","'","B","r","i","e","n","'">>.                          *)
(* Python's str methods and the regular expressions of the source are      *)
(* operators over such sequences; indexes are 1-based and "not found" is 0.*)
(***************************************************************************)
EXTENDS Integers, Sequences, FiniteSets, TLC

VARIABLES
    given,                 \* the argument handed to the function under study
    result,                \* what the function returned (a record per stage)
    stage,                 \* which calls have been made so far
    file,                  \* process_file: the lines of the input file
    conversion_stats,      \* self.conversion_stats
    current_table_lines,   \* process_file: current_table_lines
    current_insert_lines,  \* process_file: current_insert_lines
    in_create_table,       \* process_file: in_create_table
    in_insert_statement,   \* process_file: in_insert_statement
    def_outfile,           \* lines written to the definitions file after the header
    inserts_outfile,       \* lines written to the inserts file after the header
    table_inserts,         \* extract_sample_inserts: table_inserts
    table_order,           \* extract_sample_inserts: table_order
    outfile                \* extract_sample_inserts: lines written to the output file

vars == <<given, result, stage, file, conversion_stats, current_table_lines,
          current_insert_lines, in_create_table, in_insert_statement,
          def_outfile, inserts_outfile, table_inserts, table_order, outfile>>

fn_vars == <<given, result, stage>>

file_vars == <<file, conversion_stats, current_table_lines, current_insert_lines,
               in_create_table, in_insert_statement, def_outfile, inserts_outfile>>

sample_vars == <<table_inserts, table_order, outfile>>

(***************************************************************************)
(* Python str primitives                                                   *)
(***************************************************************************)

\* str.isspace() for the characters a line can hold
IsSpace(c) == c \in {" ", "\t", "\n"}

\* the characters \d matches
IsDigit(c) == c \in {"0", "1", "2", "3", "4", "5", "6", "7", "8", "9"}

DigitChars == <<"0","1","2","3","4","5","6","7","8","9">>

LowerLetters == <<"a","b","c","d","e","f","g","h","i","j","k","l","m","n","o","p","q","r","s","t","u","v","w","x","y","z">>

UpperLetters == <<"A","B","C","D","E","F","G","H","I","J","K","L","M","N","O","P","Q","R","S","T","U","V","W","X","Y","Z">>

IsLower(c) == \E k \in 1..26 : LowerLetters[k] = c

IsUpper(c) == \E k \in 1..26 : UpperLetters[k] = c

\* the characters \w matches
IsWordChar(c) == IsLower(c) \/ IsUpper(c) \/ IsDigit(c) \/ c = "_"

UpperChar(c) ==
    IF IsLower(c) THEN UpperLetters[CHOOSE k \in 1..26 : LowerLetters[k] = c] ELSE c

LowerChar(c) ==
    IF IsUpper(c) THEN LowerLetters[CHOOSE k \in 1..26 : UpperLetters[k] = c] ELSE c

\* str.upper()
Upper(s) == [i \in 1..Len(s) |-> UpperChar(s[i])]

\* str.lower()
Lower(s) == [i \in 1..Len(s) |-> LowerChar(s[i])]

\* s[i-1:] == p[:len(p)] in Python terms: p occurs in s at index i
MatchAt(s, i, p) ==
    /\ i >= 1
    /\ i + Len(p) - 1 <= Len(s)
    /\ \A k \in 1..Len(p) : s[i + k - 1] = p[k]

\* as MatchAt, ignoring case (re.IGNORECASE on a literal)
MatchAtNoCase(s, i, p) ==
    /\ i >= 1
    /\ i + Len(p) - 1 <= Len(s)
    /\ \A k \in 1..Len(p) : UpperChar(s[i + k - 1]) = UpperChar(p[k])

\* str.startswith
StartsWith(s, p) == MatchAt(s, 1, p)

\* str.endswith
EndsWith(s, p) == Len(p) <= Len(s) /\ MatchAt(s, Len(s) - Len(p) + 1, p)

\* the least element of a non-empty set of integers
MinOf(S) == CHOOSE x \in S : \A y \in S : x <= y

\* the greatest element of a non-empty set of integers
MaxOf(S) == CHOOSE x \in S : \A y \in S : x >= y

\* str.find(p, i-1) + 1: the least index >= i where p occurs, 0 when none
FindFrom(s, p, i) ==
    LET hits == {j \in i..(Len(s) - Len(p) + 1) : MatchAt(s, j, p)}
    IN  IF hits = {} THEN 0 ELSE MinOf(hits)

\* str.find(p) + 1
Find(s, p) == FindFrom(s, p, 1)

\* p in s
Contains(s, p) == Find(s, p) # 0

\* s[i-1:] in Python terms
SliceFrom(s, i) == SubSeq(s, i, Len(s))

RECURSIVE ReplaceFrom(_, _, _, _)
\* the text from index i on, each occurrence of old replaced, leftmost first
ReplaceFrom(s, old, new, i) ==
    LET j == FindFrom(s, old, i)
    IN  IF j = 0 THEN SliceFrom(s, i)
        ELSE SubSeq(s, i, j - 1) \o new \o ReplaceFrom(s, old, new, j + Len(old))

\* str.replace(old, new), old not empty: every non-overlapping occurrence,
\* leftmost first
Replace(s, old, new) == ReplaceFrom(s, old, new, 1)

RECURSIVE SkipSpaces(_, _)
\* the index of the first non-space character at or after i (Len(s)+1 when none)
SkipSpaces(s, i) == IF i <= Len(s) /\ IsSpace(s[i]) THEN SkipSpaces(s, i + 1) ELSE i

RECURSIVE SkipSpacesBack(_, _)
\* the index of the last non-space character at or before i (0 when none)
SkipSpacesBack(s, i) == IF i >= 1 /\ IsSpace(s[i]) THEN SkipSpacesBack(s, i - 1) ELSE i

\* str.strip()
Strip(s) == SubSeq(s, SkipSpaces(s, 1), SkipSpacesBack(s, Len(s)))

\* str.rstrip()
RStrip(s) == SubSeq(s, 1, SkipSpacesBack(s, Len(s)))

RECURSIVE SkipCharBack(_, _, _)
SkipCharBack(s, c, i) == IF i >= 1 /\ s[i] = c THEN SkipCharBack(s, c, i - 1) ELSE i

\* str.rstrip(c) for a one-character c
RStripChar(s, c) == SubSeq(s, 1, SkipCharBack(s, c, Len(s)))

RECURSIVE SkipQuotes(_, _)
SkipQuotes(s, i) ==
    IF i <= Len(s) /\ s[i] \in {"'", "\""} THEN SkipQuotes(s, i + 1) ELSE i

RECURSIVE SkipQuotesBack(_, _)
SkipQuotesBack(s, i) ==
    IF i >= 1 /\ s[i] \in {"'", "\""} THEN SkipQuotesBack(s, i - 1) ELSE i

\* str.strip("'\"")
StripQuotes(s) == SubSeq(s, SkipQuotes(s, 1), SkipQuotesBack(s, Len(s)))

RECURSIVE SplitFrom(_, _, _)
\* the parts of the text from index i on
SplitFrom(s, c, i) ==
    LET j == FindFrom(s, <<c>>, i)
    IN  IF j = 0 THEN <<SliceFrom(s, i)>>
        ELSE <<SubSeq(s, i, j - 1)>> \o SplitFrom(s, c, j + 1)

\* str.split(c) for a one-character separator c
Split(s, c) == SplitFrom(s, c, 1)

RECURSIVE Join(_, _)
\* sep.join(parts)
Join(parts, sep) ==
    IF Len(parts) = 0 THEN <<>>
    ELSE IF Len(parts) = 1 THEN parts[1]
    ELSE parts[1] \o sep \o Join(Tail(parts), sep)

RECURSIVE DigitsEnd(_, _)
\* the index just after the run of digits that starts at i (i when there is none):
\* where a greedy \d* or \d+ stops
DigitsEnd(s, i) == IF i <= Len(s) /\ IsDigit(s[i]) THEN DigitsEnd(s, i + 1) ELSE i

DigitVal(c) == (CHOOSE k \in 1..10 : DigitChars[k] = c) - 1

RECURSIVE ParseInt(_)
\* int(s) for a string of digits
ParseInt(s) ==
    IF Len(s) = 0 THEN 0
    ELSE 10 * ParseInt(SubSeq(s, 1, Len(s) - 1)) + DigitVal(s[Len(s)])

RECURSIVE FormatInt(_)
\* str(n), f"{n}" for n >= 0
FormatInt(n) ==
    IF n < 10 THEN <<DigitChars[n + 1]>>
    ELSE FormatInt(n \div 10) \o <<DigitChars[(n % 10) + 1]>>

\* str.zfill(2)
ZFill2(s) == IF Len(s) >= 2 THEN s ELSE IF Len(s) = 1 THEN <<"0">> \o s ELSE <<"0","0">>

\* re.sub for a pattern that never matches the empty string: MatchEnd(s, i) is
\* the index just after the match that starts at i (0 when the pattern does
\* not match there) and Repl(s, i, e) the replacement of the match s[i..e-1]
ReSub(s, MatchEnd(_, _), Repl(_, _, _)) ==
    LET RECURSIVE From(_)
        From(i) ==
            LET hits == {j \in i..Len(s) : MatchEnd(s, j) > j}
                j == MinOf(hits)
            IN  IF hits = {} THEN SliceFrom(s, i)
                ELSE SubSeq(s, i, j - 1) \o Repl(s, j, MatchEnd(s, j))
                         \o From(MatchEnd(s, j))
    IN  From(1)

(***************************************************************************)
(* Type Translator: convert_data_type and fix_data_type_precision          *)
(***************************************************************************)

\* self.data_type_mappings.get(t, t)
data_type_mappings(t) ==
    CASE t = <<"N","U","M","B","E","R">>       -> <<"D","E","C","I","M","A","L","(","1","8",",","0",")">>
      [] t = <<"N","U","M","B","E","R","(","*",")">>    -> <<"D","E","C","I","M","A","L","(","1","8",",","0",")">>
      [] t = <<"N","U","M","B","E","R","(","1",")">>    -> <<"B","I","T">>
      [] t = <<"N","U","M","B","E","R","(","3",")">>    -> <<"T","I","N","Y","I","N","T">>
      [] t = <<"N","U","M","B","E","R","(","5",")">>    -> <<"S","M","A","L","L","I","N","T">>
      [] t = <<"N","U","M","B","E","R","(","1","0",")">>   -> <<"I","N","T">>
      [] t = <<"N","U","M","B","E","R","(","1","9",")">>   -> <<"B","I","G","I","N","T">>
      [] t = <<"V","A","R","C","H","A","R","2">>     -> <<"N","V","A","R","C","H","A","R">>
      [] t = <<"V","A","R","C","H","A","R">>      -> <<"N","V","A","R","C","H","A","R">>
      [] t = <<"C","H","A","R">>         -> <<"N","C","H","A","R">>
      [] t = <<"D","A","T","E">>         -> <<"D","A","T","E","T","I","M","E","2">>
      [] t = <<"T","I","M","E","S","T","A","M","P">>    -> <<"D","A","T","E","T","I","M","E","2">>
      [] t = <<"T","I","M","E","S","T","A","M","P","(","0",")">> -> <<"D","A","T","E","T","I","M","E","2">>
      [] t = <<"T","I","M","E","S","T","A","M","P","(","6",")">> -> <<"D","A","T","E","T","I","M","E","2">>
      [] t = <<"C","L","O","B">>         -> <<"N","V","A","R","C","H","A","R","(","M","A","X",")">>
      [] t = <<"B","L","O","B">>         -> <<"V","A","R","B","I","N","A","R","Y","(","M","A","X",")">>
      [] t = <<"R","A","W">>          -> <<"N","V","A","R","C","H","A","R","(","1","2",")">>
      [] t = <<"L","O","N","G">>         -> <<"N","V","A","R","C","H","A","R","(","M","A","X",")">>
      [] t = <<"L","O","N","G"," ","R","A","W">>     -> <<"V","A","R","B","I","N","A","R","Y","(","M","A","X",")">>
      [] OTHER              -> t

\* The match of  name\((\d+)(?:\s+BYTE)?\)  (or of  name\((\d+)\)  when byte is
\* FALSE) that starts at i: the index just after the digits, 0 when no match.
SizeMatchAt(s, i, name, byte) ==
    IF ~MatchAt(s, i, name \o <<"(">>) THEN 0
    ELSE LET d == i + Len(name) + 1
             j == DigitsEnd(s, d)
             k == SkipSpaces(s, j)
         IN  IF j = d THEN 0
             ELSE IF MatchAt(s, j, <<")">>) THEN j
             ELSE IF byte /\ k > j /\ MatchAt(s, k, <<"B","Y","T","E",")">>) THEN j
             ELSE 0

\* re.search of that pattern: the size digits of the leftmost match, <<>> when
\* there is none (a match has at least one digit)
SizeSearch(s, name, byte) ==
    LET hits == {i \in 1..Len(s) : SizeMatchAt(s, i, name, byte) # 0}
    IN  IF hits = {} THEN <<>>
        ELSE LET i == MinOf(hits)
             IN  SubSeq(s, i + Len(name) + 1, SizeMatchAt(s, i, name, byte) - 1)

\* The match of  NUMBER\((\d+)(?:,(\d+))?\)  that starts at i, as
\* <<precision digits, scale digits>> (scale <<>> when the group is absent);
\* <<>> when no match.
NumberMatchAt(s, i) ==
    IF ~MatchAt(s, i, <<"N","U","M","B","E","R","(">>) THEN <<>>
    ELSE LET d == i + 7
             j == DigitsEnd(s, d)
             k == DigitsEnd(s, j + 1)
         IN  IF j = d THEN <<>>
             ELSE IF MatchAt(s, j, <<")">>) THEN <<SubSeq(s, d, j - 1), <<>>>>
             ELSE IF MatchAt(s, j, <<",">>) /\ k > j + 1 /\ MatchAt(s, k, <<")">>)
                  THEN <<SubSeq(s, d, j - 1), SubSeq(s, j + 1, k - 1)>>
             ELSE <<>>

\* re.search(r'NUMBER\((\d+)(?:,(\d+))?\)', s): the groups of the leftmost match
NumberSearch(s) ==
    LET hits == {i \in 1..Len(s) : NumberMatchAt(s, i) # <<>>}
    IN  IF hits = {} THEN <<>> ELSE NumberMatchAt(s, MinOf(hits))

\* a mutant of NumberTarget: the TINYINT threshold tested with < instead of <=
NumberTarget_StrictThreshold(precision, scale) ==
    LET p == IF precision = 0 THEN 1 ELSE precision
    IN  IF p <= 1 THEN <<"B","I","T">>
        ELSE IF p < 3 THEN <<"T","I","N","Y","I","N","T">>
        ELSE IF p <= 5 THEN <<"S","M","A","L","L","I","N","T">>
        ELSE IF p <= 10 THEN <<"I","N","T">>
        ELSE IF p <= 19 THEN <<"B","I","G","I","N","T">>
        ELSE <<"D","E","C","I","M","A","L","(">> \o FormatInt(p) \o <<",">> \o FormatInt(scale) \o <<")">>

\* convert_data_type, the NUMBER(p[,s]) branch once the pattern has matched
NumberTarget(precision, scale) ==
    LET p == IF precision = 0 THEN 1 ELSE precision
    IN  IF p <= 1 THEN <<"B","I","T">>
        ELSE IF p <= 3 THEN <<"T","I","N","Y","I","N","T">>
        ELSE IF p <= 5 THEN <<"S","M","A","L","L","I","N","T">>
        ELSE IF p <= 10 THEN <<"I","N","T">>
        ELSE IF p <= 19 THEN <<"B","I","G","I","N","T">>
        ELSE <<"D","E","C","I","M","A","L","(">> \o FormatInt(p) \o <<",">> \o FormatInt(scale) \o <<")">>

\* a mutant of convert_data_type: the pattern branches are never taken and
\* every type goes through the table lookup alone
convert_data_type_LookupOnly(oracle_type) ==
    data_type_mappings(Strip(Upper(oracle_type)))

convert_data_type(oracle_type) ==
    LET t == Strip(Upper(oracle_type))
    IN  IF StartsWith(t, <<"V","A","R","C","H","A","R","2","(">>) THEN
            LET size == SizeSearch(t, <<"V","A","R","C","H","A","R","2">>, TRUE)
            IN  IF size # <<>> THEN <<"N","V","A","R","C","H","A","R","(">> \o FormatInt(ParseInt(size)) \o <<")">>
                ELSE <<"N","V","A","R","C","H","A","R","(","2","5","5",")">>
        ELSE IF StartsWith(t, <<"V","A","R","C","H","A","R","(">>) THEN
            LET size == SizeSearch(t, <<"V","A","R","C","H","A","R">>, TRUE)
            IN  IF size # <<>> THEN <<"N","V","A","R","C","H","A","R","(">> \o FormatInt(ParseInt(size)) \o <<")">>
                ELSE <<"N","V","A","R","C","H","A","R","(","2","5","5",")">>
        ELSE IF StartsWith(t, <<"C","H","A","R","(">>) THEN
            LET size == SizeSearch(t, <<"C","H","A","R">>, TRUE)
            IN  IF size # <<>> THEN <<"N","C","H","A","R","(">> \o FormatInt(ParseInt(size)) \o <<")">>
                ELSE <<"N","C","H","A","R","(","1",")">>
        ELSE IF StartsWith(t, <<"R","A","W","(">>) THEN
            LET size == SizeSearch(t, <<"R","A","W">>, FALSE)
            IN  IF size # <<>> THEN <<"N","V","A","R","C","H","A","R","(">> \o FormatInt(ParseInt(size) * 2) \o <<")">>
                ELSE <<"N","V","A","R","C","H","A","R","(","1","2",")">>
        ELSE IF StartsWith(t, <<"T","I","M","E","S","T","A","M","P","(">>) THEN <<"D","A","T","E","T","I","M","E","2">>
        ELSE IF StartsWith(t, <<"N","U","M","B","E","R","(">>) THEN
            LET m == NumberSearch(t)
            IN  IF m # <<>>
                THEN NumberTarget(ParseInt(m[1]), IF m[2] # <<>> THEN ParseInt(m[2]) ELSE 0)
                ELSE <<"D","E","C","I","M","A","L","(","1","8",",","0",")">>
        ELSE data_type_mappings(t)

\* DECIMAL\(0,(\d+)\)
DecimalZeroEnd(s, i) ==
    LET j == DigitsEnd(s, i + 10)
    IN  IF MatchAt(s, i, <<"D","E","C","I","M","A","L","(","0",",">>) /\ j > i + 10 /\ MatchAt(s, j, <<")">>) THEN j + 1 ELSE 0

\* DECIMAL(1,\1)
DecimalZeroRepl(s, i, e) == <<"D","E","C","I","M","A","L","(","1",",">> \o SubSeq(s, i + 10, e - 2) \o <<")">>

\* DECIMAL\((\d+),0\)
DecimalScaleZeroEnd(s, i) ==
    LET j == DigitsEnd(s, i + 8)
    IN  IF MatchAt(s, i, <<"D","E","C","I","M","A","L","(">>) /\ j > i + 8 /\ MatchAt(s, j, <<",","0",")">>) THEN j + 3 ELSE 0

\* DECIMAL(\1,0)
DecimalScaleZeroRepl(s, i, e) == <<"D","E","C","I","M","A","L","(">> \o SubSeq(s, i + 8, e - 4) \o <<",","0",")">>

\* TIMESTAMP\s*\(\s*\d+\s*\)
TimestampEnd(s, i) ==
    LET a == SkipSpaces(s, i + 9)
        b == SkipSpaces(s, a + 1)
        c == DigitsEnd(s, b)
        d == SkipSpaces(s, c)
    IN  IF MatchAt(s, i, <<"T","I","M","E","S","T","A","M","P">>) /\ MatchAt(s, a, <<"(">>) /\ c > b /\ MatchAt(s, d, <<")">>)
        THEN d + 1 ELSE 0

\* TIMESTAMP\s*\(\s*0\s*\)
TimestampZeroEnd(s, i) ==
    LET a == SkipSpaces(s, i + 9)
        b == SkipSpaces(s, a + 1)
        d == SkipSpaces(s, b + 1)
    IN  IF MatchAt(s, i, <<"T","I","M","E","S","T","A","M","P">>) /\ MatchAt(s, a, <<"(">>) /\ MatchAt(s, b, <<"0">>)
           /\ MatchAt(s, d, <<")">>)
        THEN d + 1 ELSE 0

ToDatetime2(s, i, e) == <<"D","A","T","E","T","I","M","E","2">>

\* \bNUMBER\b(?!\s*\()
BareNumberEnd(s, i) ==
    IF /\ MatchAt(s, i, <<"N","U","M","B","E","R">>)
       /\ (i = 1 \/ ~IsWordChar(s[i - 1]))
       /\ (i + 6 > Len(s) \/ ~IsWordChar(s[i + 6]))
       /\ ~MatchAt(s, SkipSpaces(s, i + 6), <<"(">>)
    THEN i + 6 ELSE 0

ToDecimal18(s, i, e) == <<"D","E","C","I","M","A","L","(","1","8",",","0",")">>

fix_data_type_precision(line) ==
    LET l1 == Replace(line, <<"D","E","C","I","M","A","L","(","0",",","0",")">>, <<"D","E","C","I","M","A","L","(","1",",","0",")">>)
        l2 == ReSub(l1, DecimalZeroEnd, DecimalZeroRepl)
        l3 == ReSub(l2, DecimalScaleZeroEnd, DecimalScaleZeroRepl)
        l4 == Replace(l3, <<"N","V","A","R","C","H","A","R","(","0",")">>, <<"N","V","A","R","C","H","A","R","(","1",")">>)
        l5 == Replace(l4, <<"N","C","H","A","R","(","0",")">>, <<"N","C","H","A","R","(","1",")">>)
        l6 == Replace(l5, <<"V","A","R","C","H","A","R","(","0",")">>, <<"V","A","R","C","H","A","R","(","1",")">>)
        l7 == Replace(l6, <<"C","H","A","R","(","0",")">>, <<"C","H","A","R","(","1",")">>)
        l8 == ReSub(l7, TimestampEnd, ToDatetime2)
        l9 == ReSub(l8, TimestampZeroEnd, ToDatetime2)
    IN  ReSub(l9, BareNumberEnd, ToDecimal18)

(***************************************************************************)
(* Literal Tokenizer and quote re-escaping: escape_quotes_in_values        *)
(***************************************************************************)

\* re.search(r'VALUES\s*\((.*)\);?$', line, re.IGNORECASE | re.DOTALL), for a
\* line without a trailing newline (process_file strips every line it hands
\* on).  The greedy (.*) runs to the last ")" of the line, which must be the
\* last character or be followed by a final ";".  The index of that ")",
\* 0 when the line does not end that way.
ValuesClose(line) ==
    IF EndsWith(line, <<")">>) THEN Len(line)
    ELSE IF EndsWith(line, <<")",";">>) THEN Len(line) - 1
    ELSE 0

\* the index of the "(" of  VALUES\s*\(  when it starts at i, 0 otherwise
ValuesOpenAt(line, i) ==
    LET o == SkipSpaces(line, i + 6)
    IN  IF MatchAtNoCase(line, i, <<"V","A","L","U","E","S">>) /\ MatchAt(line, o, <<"(">>) THEN o ELSE 0

\* the start of the leftmost match of the whole pattern, 0 when none
ValuesStart(line) ==
    LET close == ValuesClose(line)
        hits == {i \in 1..Len(line) :
                    ValuesOpenAt(line, i) # 0 /\ ValuesOpenAt(line, i) < close}
    IN  IF close = 0 \/ hits = {} THEN 0 ELSE MinOf(hits)

\* the least index >= i of a character of values_part that is in chars,
\* Len(values_part) + 1 when none
NextOf(values_part, i, chars) ==
    LET hits == {j \in i..Len(values_part) : values_part[j] \in chars}
    IN  IF hits = {} THEN Len(values_part) + 1 ELSE MinOf(hits)

RECURSIVE ScanValues(_, _, _, _, _, _)
\* The while loop of escape_quotes_in_values over values_part, from index i;
\* quote_char is "" for None.  Returns <<values, current_value>> at the end.
\* The characters the loop only appends to current_value (outside a literal,
\* any but a quote or a comma; inside, any but quote_char) are taken in one
\* step up to the next character the loop acts on.
ScanValues(values_part, i, in_quotes, quote_char, current_value, values) ==
    IF i > Len(values_part) THEN <<values, current_value>>
    ELSE LET char == values_part[i]
         IN  IF ~in_quotes THEN
                 IF char \in {"'", "\""} THEN
                     ScanValues(values_part, i + 1, TRUE, char,
                                Append(current_value, char), values)
                 ELSE IF char = "," THEN
                     ScanValues(values_part, i + 1, FALSE, quote_char,
                                <<>>, Append(values, Strip(current_value)))
                 ELSE
                     LET j == NextOf(values_part, i, {"'", "\"", ","})
                     IN  ScanValues(values_part, j, FALSE, quote_char,
                                    current_value \o SubSeq(values_part, i, j - 1), values)
             ELSE IF char = quote_char THEN
                 IF i + 1 <= Len(values_part) /\ values_part[i + 1] = quote_char THEN
                     ScanValues(values_part, i + 2, TRUE, quote_char,
                                current_value \o <<char, char>>, values)
                 ELSE
                     ScanValues(values_part, i + 1, FALSE, "",
                                Append(current_value, char), values)
             ELSE
                 LET j == NextOf(values_part, i, {quote_char})
                 IN  ScanValues(values_part, j, TRUE, quote_char,
                                current_value \o SubSeq(values_part, i, j - 1), values)

\* escape_quotes_in_values, the split of values_part into values
tokenize(values_part) ==
    LET scan == ScanValues(values_part, 1, FALSE, "", <<>>, <<>>)
    IN  IF Strip(scan[2]) # <<>> THEN Append(scan[1], Strip(scan[2])) ELSE scan[1]

\* escape_quotes_in_values, the body of the loop over values
process_value(v) ==
    LET value == Strip(v)
    IN  IF StartsWith(value, <<"'">>) /\ EndsWith(value, <<"'">>)
        THEN <<"'">> \o Replace(SubSeq(value, 2, Len(value) - 1), <<"'">>, <<"'","'">>) \o <<"'">>
        ELSE value

escape_quotes_in_values(line) ==
    LET start == ValuesStart(line)
        open == ValuesOpenAt(line, start)
        values_part == SubSeq(line, open + 1, ValuesClose(line) - 1)
        original_values == SliceFrom(line, start)
        values == tokenize(values_part)
        processed_values == [k \in 1..Len(values) |-> process_value(values[k])]
        new_values_part == Join(processed_values, <<","," ">>)
    IN  IF start = 0 THEN line
        ELSE Replace(line, original_values, <<"V","A","L","U","E","S"," ","(">> \o new_values_part \o <<")">>)

(***************************************************************************)
(* String Sanitizer: fix_problematic_strings                               *)
(***************************************************************************)

\* where a greedy [^']* that starts at i stops
SkipNonQuotes(s, i) ==
    LET j == FindFrom(s, <<"'">>, i) IN IF j = 0 THEN Len(s) + 1 ELSE j

RECURSIVE LiteralScan(_, _, _)
\* The rest of  '([^']*(?:''[^']*)*)'  from index i, just after a greedy [^']*;
\* last is the index of the last '' pair taken by the group (0 when none).
\* A lone quote closes the literal.  At the end of the text without one, the
\* matcher backtracks out of the last '' pair and closes on its first quote.
LiteralScan(s, i, last) ==
    IF MatchAt(s, i, <<"'","'">>) THEN LiteralScan(s, SkipNonQuotes(s, i + 2), i)
    ELSE IF MatchAt(s, i, <<"'">>) THEN i + 1
    ELSE IF last # 0 THEN last + 1
    ELSE 0

\* the index just after the match of  '([^']*(?:''[^']*)*)'  that starts at i
LiteralEnd(s, i) ==
    IF MatchAt(s, i, <<"'">>) THEN LiteralScan(s, SkipNonQuotes(s, i + 1), 0) ELSE 0

\* \brv:(\d+\.\d+)  and  \bversion:(\d+\.\d+) : the end of the match of
\* \bprefix(\d+\.\d+) that starts at i
VersionEnd(s, i, prefix) ==
    LET d == i + Len(prefix)
        j == DigitsEnd(s, d)
        k == DigitsEnd(s, j + 1)
    IN  IF /\ MatchAt(s, i, prefix)
           /\ (i = 1 \/ ~IsWordChar(s[i - 1]))
           /\ j > d /\ MatchAt(s, j, <<".">>) /\ k > j + 1
        THEN k ELSE 0

RvEnd(s, i) == VersionEnd(s, i, <<"r","v",":">>)

RvRepl(s, i, e) == <<"v","e","r","s","i","o","n">> \o SubSeq(s, i + 3, e - 1)

VersionColonEnd(s, i) == VersionEnd(s, i, <<"v","e","r","s","i","o","n",":">>)

VersionColonRepl(s, i, e) == <<"v","e","r","s","i","o","n">> \o SubSeq(s, i + 8, e - 1)

\* the index just after the run of characters equal to s[i] that starts at i
RunEnd(s, i) ==
    LET others == {j \in i..Len(s) : s[j] # s[i]}
    IN  IF others = {} THEN Len(s) + 1 ELSE MinOf(others)

\* the least length of a run that replace_in_strings collapses
RepeatThreshold == 11

\* (.)\1{10,} : 11 or more copies of one character (never a newline)
RepeatedEnd(s, i) ==
    IF s[i] # "\n" /\ RunEnd(s, i) - i >= RepeatThreshold THEN RunEnd(s, i) ELSE 0

\* \1\1\1... [REPEATED]
RepeatedRepl(s, i, e) == <<s[i], s[i], s[i]>> \o <<".",".","."," ","[","R","E","P","E","A","T","E","D","]">>

\* the length over which replace_in_strings truncates
TruncateThreshold == 100

TruncationMarker == <<".",".","."," ","[","T","R","U","N","C","A","T","E","D","]">>

\* replace_in_strings, the keyword replacements in their order
ShortenKeywords(string_content) ==
    LET c1 == Replace(string_content, <<"w","i","t","h">>, <<"w","/">>)
        c2 == Replace(c1, <<"a","b","o","u","t">>, <<"a","b","t">>)
        c3 == Replace(c2, <<"s","e","l","e","c","t">>, <<"s","e","l">>)
        c4 == Replace(c3, <<"i","n","s","e","r","t">>, <<"i","n","s">>)
        c5 == Replace(c4, <<"u","p","d","a","t","e">>, <<"u","p","d">>)
        c6 == Replace(c5, <<"d","e","l","e","t","e">>, <<"d","e","l">>)
        c7 == Replace(c6, <<"c","r","e","a","t","e">>, <<"c","r">>)
        c8 == Replace(c7, <<"d","r","o","p">>, <<"d","r">>)
    IN  Replace(c8, <<"a","l","t","e","r">>, <<"a","l","t">>)

\* replace_in_strings, the truncation of content longer than 100 characters
Truncate(string_content) ==
    IF Len(string_content) > TruncateThreshold THEN
        LET truncate_at ==
                IF SubSeq(string_content, TruncateThreshold,
                          TruncateThreshold + 1) = <<"'","'">>
                THEN TruncateThreshold - 1 ELSE TruncateThreshold
        IN  SubSeq(string_content, 1, truncate_at) \o TruncationMarker
    ELSE string_content

\* replace_in_strings, the replacement of problematic characters
ReplaceProblemChars(string_content) ==
    Replace(Replace(Replace(Replace(string_content,
        <<"[">>, <<"(">>), <<"]">>, <<")">>), <<";">>, <<",">>), <<"\\">>, <<"/">>)

\* fix_problematic_strings.replace_in_strings, on the text of group 1
replace_in_strings(string_content) ==
    IF string_content = <<"[",";">> \/ string_content = <<"[",";",")",";">> THEN <<"'","M","A","L","F","O","R","M","E","D","_","S","T","R","I","N","G","'">>
    ELSE LET c1 == ReSub(string_content, RvEnd, RvRepl)
             c2 == ReSub(c1, VersionColonEnd, VersionColonRepl)
             c3 == ShortenKeywords(c2)
             c4 == Truncate(c3)
             c5 == ReSub(c4, RepeatedEnd, RepeatedRepl)
             c6 == ReplaceProblemChars(c5)
             c7 == IF StartsWith(c6, <<"[">>) /\ EndsWith(c6, <<";">>)
                   THEN <<"M","A","L","F","O","R","M","E","D","_","S","T","R","I","N","G">> ELSE c6
         IN  <<"'">> \o c7 \o <<"'">>

LiteralRepl(s, i, e) == replace_in_strings(SubSeq(s, i + 1, e - 2))

fix_problematic_strings(line) == ReSub(line, LiteralEnd, LiteralRepl)

(***************************************************************************)
(* Function/Expression Translator: convert_oracle_functions                *)
(***************************************************************************)

\* whether int(s) succeeds, for s without surrounding spaces: an optional sign,
\* then digits, single underscores allowed between digits
IsInt(s) ==
    LET d == IF Len(s) >= 1 /\ s[1] \in {"+", "-"} THEN SliceFrom(s, 2) ELSE s
    IN  /\ Len(d) >= 1
        /\ IsDigit(d[1])
        /\ IsDigit(d[Len(d)])
        /\ \A k \in 1..Len(d) : IsDigit(d[k]) \/ d[k] = "_"
        /\ ~Contains(d, <<"_","_">>)

\* int(s) when IsInt(s)
IntOf(s) ==
    LET d == Replace(IF s[1] \in {"+", "-"} THEN SliceFrom(s, 2) ELSE s, <<"_">>, <<>>)
    IN  IF s[1] = "-" THEN 0 - ParseInt(d) ELSE ParseInt(d)

\* str(n) for any integer n
StrOfInt(n) == IF n < 0 THEN <<"-">> \o FormatInt(0 - n) ELSE FormatInt(n)

\* month_map.get(month, '01')
month_map(month) ==
    CASE month = <<"J","A","N">> -> <<"0","1">> [] month = <<"F","E","B">> -> <<"0","2">> [] month = <<"M","A","R">> -> <<"0","3">>
      [] month = <<"A","P","R">> -> <<"0","4">> [] month = <<"M","A","Y">> -> <<"0","5">> [] month = <<"J","U","N">> -> <<"0","6">>
      [] month = <<"J","U","L">> -> <<"0","7">> [] month = <<"A","U","G">> -> <<"0","8">> [] month = <<"S","E","P">> -> <<"0","9">>
      [] month = <<"O","C","T">> -> <<"1","0">> [] month = <<"N","O","V">> -> <<"1","1">> [] month = <<"D","E","C">> -> <<"1","2">>
      [] OTHER -> <<"0","1">>

\* str.zfill(2): a leading sign stays in front of the padding
ZFill(s) ==
    IF Len(s) = 1 /\ s[1] \in {"+", "-"} THEN s \o <<"0">> ELSE ZFill2(s)

\* the mutation of convert_to_timestamp whose except clause returns date_str
\* without quotes
convert_to_timestamp_Unquoted(group1) == StripQuotes(Strip(group1))

\* convert_oracle_functions.convert_to_timestamp on group 1 of the match.
\* The try block raises, and the except clause re-quotes date_str, when a
\* split gives the wrong number of parts or int(year) fails.
convert_to_timestamp(group1) ==
    LET date_str == StripQuotes(Strip(group1))
        halves == Split(date_str, " ")
        date_parts == Split(halves[1], "-")
        time_parts == Split(halves[2], ".")
        day == date_parts[1]
        month == date_parts[2]
        year == date_parts[3]
        hour == time_parts[1]
        minute == time_parts[2]
        second == IF Len(time_parts) > 2 THEN time_parts[3] ELSE <<"0","0">>
        year_int == IntOf(year)
        full_year == IF year_int < 50 THEN 2000 + year_int ELSE 1900 + year_int
    IN  IF /\ Len(halves) = 2
           /\ Len(date_parts) = 3
           /\ Len(time_parts) >= 2
           /\ IsInt(year)
        THEN <<"'">> \o StrOfInt(full_year) \o <<"-">> \o month_map(month) \o <<"-">> \o ZFill(day)
                 \o <<" ">> \o ZFill(hour) \o <<":">> \o ZFill(minute) \o <<":">> \o ZFill(second)
                 \o <<".","0","0","0","'">>
        ELSE <<"'">> \o date_str \o <<"'">>

\* to_timestamp\('([^']+)',([^)]+)\) : the index of the quote that ends group 1
\* when the pattern matches at i, 0 otherwise
ToTimestampQuote(s, i) ==
    LET q == SkipNonQuotes(s, i + 14)
        c == FindFrom(s, <<")">>, q + 2)
    IN  IF /\ MatchAt(s, i, <<"t","o","_","t","i","m","e","s","t","a","m","p","(","'">>)
           /\ q > i + 14
           /\ MatchAt(s, q, <<"'",",">>)
           /\ c > q + 2
        THEN q ELSE 0

ToTimestampEnd(s, i) ==
    IF ToTimestampQuote(s, i) = 0 THEN 0
    ELSE FindFrom(s, <<")">>, ToTimestampQuote(s, i) + 2) + 1

ToTimestampRepl(s, i, e) ==
    convert_to_timestamp(SubSeq(s, i + 14, ToTimestampQuote(s, i) - 1))

\* to_date\(([^,]+),([^)]+)\) : the index of the comma that ends group 1 when
\* the pattern matches at i, 0 otherwise
ToDateComma(s, i) ==
    LET comma == FindFrom(s, <<",">>, i + 8)
        c == FindFrom(s, <<")">>, comma + 1)
    IN  IF MatchAt(s, i, <<"t","o","_","d","a","t","e","(">>) /\ comma > i + 8 /\ c > comma + 1
        THEN comma ELSE 0

ToDateEnd(s, i) ==
    IF ToDateComma(s, i) = 0 THEN 0 ELSE FindFrom(s, <<")">>, ToDateComma(s, i) + 1) + 1

\* \1
ToDateRepl(s, i, e) == SubSeq(s, i + 8, ToDateComma(s, i) - 1)

SysdateEnd(s, i) == IF MatchAtNoCase(s, i, <<"s","y","s","d","a","t","e">>) THEN i + 7 ELSE 0

SystimestampEnd(s, i) == IF MatchAtNoCase(s, i, <<"s","y","s","t","i","m","e","s","t","a","m","p">>) THEN i + 12 ELSE 0

ToGetdate(s, i, e) == <<"G","E","T","D","A","T","E","(",")">>

\* the mutation of convert_oracle_functions that translates nothing
convert_oracle_functions_Skipped(line) == line

convert_oracle_functions(line) ==
    LET l1 == ReSub(line, ToTimestampEnd, ToTimestampRepl)
        l2 == ReSub(l1, ToDateEnd, ToDateRepl)
        l3 == ReSub(l2, SysdateEnd, ToGetdate)
    IN  ReSub(l3, SystimestampEnd, ToGetdate)

(***************************************************************************)
(* Rewrite Orchestrator for inserts: convert_insert_statement and the      *)
(* fixes of fix_data_type_issues                                           *)
(***************************************************************************)

\* self.schema_name, the default of __init__ and of --schema
schema_name == <<"A","D","M","I","N">>

\* the index of the first whitespace character at or after i (Len(s)+1 when none)
NextSpace(s, i) ==
    LET hits == {j \in i..Len(s) : IsSpace(s[j])}
    IN  IF hits = {} THEN Len(s) + 1 ELSE MinOf(hits)

\* Insert into ADMIN\.([^\s]+)\s*\(  at i: the index just after group 1, 0 when
\* there is no match.  Group 1 is greedy: the whole run of non-space characters
\* when blanks and "(" follow it, else the run up to its last "(".
InsertHeadGroupEnd(s, i) ==
    LET p == i + Len(<<"I","n","s","e","r","t"," ","i","n","t","o"," ">> \o schema_name \o <<".">>)
        r == NextSpace(s, p)
        w == SkipSpaces(s, r)
        opens == {k \in (p + 1)..(r - 1) : s[k] = "("}
    IN  IF ~MatchAt(s, i, <<"I","n","s","e","r","t"," ","i","n","t","o"," ">> \o schema_name \o <<".">>) THEN 0
        ELSE IF r > p /\ w <= Len(s) /\ s[w] = "(" THEN r
        ELSE IF opens # {} THEN MaxOf(opens)
        ELSE 0

InsertHeadEnd(s, i) ==
    IF InsertHeadGroupEnd(s, i) = 0 THEN 0
    ELSE SkipSpaces(s, InsertHeadGroupEnd(s, i)) + 1

\* INSERT INTO [ADMIN].[\1] (
InsertHeadRepl(s, i, e) ==
    <<"I","N","S","E","R","T"," ","I","N","T","O"," ","[">> \o schema_name \o <<"]",".","[">>
        \o SubSeq(s, i + Len(<<"I","n","s","e","r","t"," ","i","n","t","o"," ">> \o schema_name \o <<".">>),
                  InsertHeadGroupEnd(s, i) - 1)
        \o <<"]"," ","(">>

\* \(([^)]+)\)\s+values  at i: the index of the ")" that ends group 1, 0 when
\* there is no match
ColumnListClose(s, i) ==
    LET c == FindFrom(s, <<")">>, i + 1)
        w == SkipSpaces(s, c + 1)
    IN  IF i <= Len(s) /\ s[i] = "(" /\ c > i + 1 /\ w > c + 1 /\ MatchAt(s, w, <<"v","a","l","u","e","s">>)
        THEN c ELSE 0

ColumnListEnd(s, i) ==
    IF ColumnListClose(s, i) = 0 THEN 0
    ELSE SkipSpaces(s, ColumnListClose(s, i) + 1) + 6

RECURSIVE BracketEach(_)
\* [f'[{col}]' for col in column_list]
BracketEach(cols) ==
    IF cols = <<>> THEN <<>>
    ELSE <<<<"[">> \o Strip(Head(cols)) \o <<"]">>>> \o BracketEach(Tail(cols))

\* convert_insert_statement.add_brackets_to_columns
add_brackets_to_columns(s, i, e) ==
    <<"(">> \o Join(BracketEach(Split(SubSeq(s, i + 1, ColumnListClose(s, i) - 1), ",")), <<","," ">>)
        \o <<")">>

\* \)\s*\(
CloseOpenEnd(s, i) ==
    LET w == SkipSpaces(s, i + 1)
    IN  IF i <= Len(s) /\ s[i] = ")" /\ w <= Len(s) /\ s[w] = "(" THEN w + 1 ELSE 0

CloseOpenRepl(s, i, e) == <<")"," ","V","A","L","U","E","S"," ","(">>

\* \bnull\b with re.IGNORECASE
NullEnd(s, i) ==
    IF /\ MatchAtNoCase(s, i, <<"n","u","l","l">>)
       /\ (i = 1 \/ ~IsWordChar(s[i - 1]))
       /\ (i + 4 > Len(s) \/ ~IsWordChar(s[i + 4]))
    THEN i + 4 ELSE 0

NullRepl(s, i, e) == <<"N","U","L","L">>

\* '(\d+E\d+)'
ScientificEnd(s, i) ==
    LET d1 == DigitsEnd(s, i + 1)
        d2 == DigitsEnd(s, d1 + 1)
    IN  IF /\ i <= Len(s) /\ s[i] = "'"
           /\ d1 > i + 1 /\ d1 <= Len(s) /\ s[d1] = "E"
           /\ d2 > d1 + 1 /\ d2 <= Len(s) /\ s[d2] = "'"
        THEN d2 + 1 ELSE 0

fix_numeric_issues(line) == ReSub(line, ScientificEnd, NullRepl)

fix_extra_parentheses(line) == Replace(Replace(line, <<"'",")",";",")",";">>, <<"'",")",";">>), <<")",";",")",";">>, <<")",";">>)

\* if "'[;" in line or "'[;);" in line
LooksMalformed(line) == Contains(line, <<"'","[",";">>) \/ Contains(line, <<"'","[",";",")",";">>)

\* any(keyword in line.upper() for keyword in ['USE ', 'SET DEFINE', 'ALTER SESSION'])
LooksOracleSpecific(line) ==
    \E keyword \in {<<"U","S","E"," ">>, <<"S","E","T"," ","D","E","F","I","N","E">>, <<"A","L","T","E","R"," ","S","E","S","S","I","O","N">>} : Contains(Upper(line), keyword)

\* the mutation of fix_malformed_statements that never comments a line out
fix_malformed_statements_Never(line) == line

fix_malformed_statements(line) ==
    IF LooksMalformed(line) THEN <<"-","-"," ","S","K","I","P","P","E","D"," ","M","A","L","F","O","R","M","E","D"," ","L","I","N","E",":"," ">> \o Strip(line)
    ELSE IF LooksOracleSpecific(line)
         THEN <<"-","-"," ">> \o Strip(line) \o <<" ","(","O","r","a","c","l","e"," ","s","p","e","c","i","f","i","c",","," ","c","o","m","m","e","n","t","e","d"," ","o","u","t",")">>
    ELSE line

\* the mutation of the test of line 626 that takes no line as commented out
IsCommentedOut_Never(line) == FALSE

\* line.strip().startswith('--')
IsCommentedOut(line) == StartsWith(Strip(line), <<"-","-">>)

fix_data_type_issues(line) ==
    LET l1 == fix_malformed_statements(line)
    IN  IF IsCommentedOut(l1) THEN l1
        ELSE fix_extra_parentheses(fix_numeric_issues(
                 fix_problematic_strings(escape_quotes_in_values(l1))))

\* the rewrites of convert_insert_statement before fix_data_type_issues
InsertHead(line) == ReSub(line, InsertHeadEnd, InsertHeadRepl)

BracketColumns(line) == ReSub(line, ColumnListEnd, add_brackets_to_columns)

ValuesKeyword(line) == ReSub(line, CloseOpenEnd, CloseOpenRepl)

NullKeyword(line) == ReSub(line, NullEnd, NullRepl)

\* the line convert_insert_statement returns (it also counts the statement)
convert_insert_statement(line) ==
    fix_data_type_issues(NullKeyword(convert_oracle_functions(
        ValuesKeyword(BracketColumns(InsertHead(line))))))

RECURSIVE StripEach(_)
\* [line.strip() for line in lines]
StripEach(lines) ==
    IF lines = <<>> THEN <<>> ELSE <<Strip(Head(lines))>> \o StripEach(Tail(lines))

convert_multi_line_insert(lines) == convert_insert_statement(Join(StripEach(lines), <<" ">>))

(***************************************************************************)
(* Rewrite Orchestrator for definitions: extract_table_name and            *)
(* convert_create_table                                                    *)
(***************************************************************************)

\* [A-Z0-9_]
IsIdentChar(c) == IsUpper(c) \/ IsDigit(c) \/ c = "_"

\* the index just after the run of [A-Z0-9_] that starts at i
IdentEnd(s, i) ==
    LET stops == {j \in i..Len(s) : ~IsIdentChar(s[j])}
    IN  IF stops = {} THEN Len(s) + 1 ELSE MinOf(stops)

\* CREATE TABLE\s+"ADMIN"\."([^"]+)"  at i: the index of the quote that closes
\* group 1, 0 when there is no match
QuotedTableClose(s, i) ==
    LET w == SkipSpaces(s, i + 12)
        a == w + Len(schema_name) + 4
        q == FindFrom(s, <<"\"">>, a)
    IN  IF /\ MatchAt(s, i, <<"C","R","E","A","T","E"," ","T","A","B","L","E">>)
           /\ w > i + 12
           /\ MatchAt(s, w, <<"\"">> \o schema_name \o <<"\"",".","\"">>)
           /\ q > a
        THEN q ELSE 0

\* CREATE TABLE\s+ADMIN\.([A-Z_][A-Z0-9_]*)  at i: the index just after group
\* 1, 0 when there is no match
UnquotedTableEnd(s, i) ==
    LET w == SkipSpaces(s, i + 12)
        a == w + Len(schema_name) + 1
    IN  IF /\ MatchAt(s, i, <<"C","R","E","A","T","E"," ","T","A","B","L","E">>)
           /\ w > i + 12
           /\ MatchAt(s, w, schema_name \o <<".">>)
           /\ a <= Len(s)
           /\ (IsUpper(s[a]) \/ s[a] = "_")
        THEN IdentEnd(s, a + 1) ELSE 0

extract_table_name(create_table_line) ==
    LET s == create_table_line
        quoted == {i \in 1..Len(s) : QuotedTableClose(s, i) # 0}
        unquoted == {i \in 1..Len(s) : UnquotedTableEnd(s, i) # 0}
        qi == MinOf(quoted)
        ui == MinOf(unquoted)
    IN  IF quoted # {}
        THEN SubSeq(s, SkipSpaces(s, qi + 12) + Len(schema_name) + 4,
                    QuotedTableClose(s, qi) - 1)
        ELSE IF unquoted # {}
        THEN SubSeq(s, SkipSpaces(s, ui + 12) + Len(schema_name) + 1,
                    UnquotedTableEnd(s, ui) - 1)
        ELSE <<"U","N","K","N","O","W","N">>

\* the lines convert_create_table appends for the CREATE TABLE line
TableHeader(table_name) ==
    << <<"-","-"," ","T","a","b","l","e",":"," ">> \o table_name,
       <<"I","F"," ","E","X","I","S","T","S","(","S","E","L","E","C","T"," ","n","a","m","e"," ","F","R","O","M"," ","s","y","s",".","s","y","s","o","b","j","e","c","t","s"," ","W","H","E","R","E"," ","N","a","m","e"," ","="," ","N","'">> \o table_name
           \o <<"'"," ","A","N","D"," ","x","t","y","p","e"," ","="," ","N","'","U","'",")">>,
       <<"B","E","G","I","N">>,
       <<" "," "," "," ","D","R","O","P"," ","T","A","B","L","E"," ","[">> \o schema_name \o <<"]",".","[">> \o table_name \o <<"]">>,
       <<"E","N","D">>,
       <<"G","O">>,
       <<>>,
       <<"C","R","E","A","T","E"," ","T","A","B","L","E"," ","[">> \o schema_name \o <<"]",".","[">> \o table_name \o <<"]"," ","(">> >>

StorageKeywords ==
    {<<"S","E","G","M","E","N","T"," ","C","R","E","A","T","I","O","N">>, <<"P","C","T","F","R","E","E">>, <<"P","C","T","U","S","E","D">>, <<"I","N","I","T","R","A","N","S">>, <<"M","A","X","T","R","A","N","S">>, <<"N","O","C","O","M","P","R","E","S","S">>,
     <<"L","O","G","G","I","N","G">>, <<"S","T","O","R","A","G","E">>, <<"T","A","B","L","E","S","P","A","C","E">>, <<"B","U","F","F","E","R","_","P","O","O","L">>, <<"F","L","A","S","H","_","C","A","C","H","E">>,
     <<"C","E","L","L","_","F","L","A","S","H","_","C","A","C","H","E">>, <<"P","C","T","I","N","C","R","E","A","S","E">>, <<"F","R","E","E","L","I","S","T","S">>, <<"F","R","E","E","L","I","S","T"," ","G","R","O","U","P","S">>}

\* any(keyword in line.upper() for keyword in [...])
HasStorageKeyword(line) == \E keyword \in StorageKeywords : Contains(Upper(line), keyword)

\* re.match of "([^"]+)"\s+(.+) and then of ([A-Z_][A-Z0-9_]*)\s+(.+) on a line
\* without line breaks: <<column_name, group 2>>, or <<>> when neither matches.
\* Greedy \s+ leaves its last blank to (.+) when nothing else follows.
ColumnMatch(s) ==
    LET q == FindFrom(s, <<"\"">>, 2)
        e == IF Len(s) >= 1 /\ s[1] = "\"" THEN (IF q > 2 THEN q + 1 ELSE 0)
             ELSE IF Len(s) >= 1 /\ (IsUpper(s[1]) \/ s[1] = "_") THEN IdentEnd(s, 2)
             ELSE 0
        w == SkipSpaces(s, e)
        g == IF w <= Len(s) THEN w ELSE w - 1
        name == IF s[1] = "\"" THEN SubSeq(s, 2, q - 1) ELSE SubSeq(s, 1, e - 1)
    IN  IF e = 0 \/ g <= e THEN <<>>
        ELSE <<name, SliceFrom(s, g)>>

\* the column line built from a match (lines 264-293)
ColumnLine(column_name, oracle_type) ==
    LET default_start == Find(Upper(oracle_type), <<"D","E","F","A","U","L","T">>)
        default_part == Strip(SliceFrom(oracle_type, default_start + 7))
        type_part == Strip(SubSeq(oracle_type, 1, default_start - 1))
    IN  IF Contains(Upper(oracle_type), <<"D","E","F","A","U","L","T">>)
        THEN <<" "," "," "," ","[">> \o column_name \o <<"]"," ">>
                 \o fix_data_type_precision(convert_data_type(type_part))
                 \o <<" ","D","E","F","A","U","L","T"," ">>
                 \o (IF Contains(Lower(default_part), <<"s","y","s","_","g","u","i","d","(",")">>)
                     THEN <<"N","E","W","I","D","(",")">> ELSE default_part)
        ELSE <<" "," "," "," ","[">> \o column_name \o <<"]"," ">>
                 \o fix_data_type_precision(convert_data_type(oracle_type))

\* one iteration of the loop of convert_create_table: the loop's variables
\* after the line
CreateTableStep(st, raw) ==
    LET line == Strip(raw)
        line1 == IF st.in_column_def /\ StartsWith(line, <<"(">>)
                 THEN Strip(SliceFrom(line, 2)) ELSE line
        closes == st.in_column_def /\ EndsWith(line1, <<")",";">>)
        line2 == IF closes THEN Strip(SubSeq(line1, 1, Len(line1) - 2)) ELSE line1
        line_clean == Strip(RStripChar(line2, ","))
        column_match == ColumnMatch(line_clean)
    IN  IF Contains(line, <<"C","R","E","A","T","E"," ","T","A","B","L","E">>) /\ st.table_name = <<>>
        THEN [st EXCEPT !.table_name = extract_table_name(line),
                        !.sql_server_lines = @ \o TableHeader(extract_table_name(line)),
                        !.in_column_def = TRUE]
        ELSE IF HasStorageKeyword(line) THEN st
        ELSE IF st.in_column_def /\ Strip(line) = <<")">>
        THEN [st EXCEPT !.in_column_def = FALSE]
        ELSE IF closes THEN [st EXCEPT !.in_column_def = FALSE]
        ELSE IF st.in_column_def /\ line2 # <<>> /\ column_match # <<>>
        THEN [st EXCEPT !.columns =
                 Append(@, ColumnLine(column_match[1], Strip(column_match[2])))]
        ELSE st

RECURSIVE CreateTableLoop(_, _)
\* for line in lines: ...
CreateTableLoop(st, lines) ==
    IF lines = <<>> THEN st
    ELSE CreateTableLoop(CreateTableStep(st, Head(lines)), Tail(lines))

\* the loop's variables when it ends; table_name <<>> stands for None
CreateTableScan(lines) ==
    CreateTableLoop([sql_server_lines |-> <<>>, table_name |-> <<>>,
                     columns |-> <<>>, in_column_def |-> FALSE], lines)

\* the comma separation of lines 296-302
SeparateColumns(columns) ==
    [i \in 1..Len(columns) |->
        IF i < Len(columns)
        THEN (IF EndsWith(RStrip(columns[i]), <<",">>) THEN columns[i]
              ELSE RStrip(columns[i]) \o <<",">>)
        ELSE RStripChar(RStrip(columns[i]), ",")]

convert_create_table(lines) ==
    LET st == CreateTableScan(lines)
    IN  IF st.columns # <<>>
        THEN st.sql_server_lines \o SeparateColumns(st.columns) \o <<<<")",";">>, <<"G","O">>, <<>>>>
        ELSE st.sql_server_lines

\* what convert_create_table adds to conversion_stats['tables_processed']
TablesCounted(lines) == IF CreateTableScan(lines).columns # <<>> THEN 1 ELSE 0

(***************************************************************************)
(* The variables a specification does not use keep their initial value.    *)
(***************************************************************************)

FnIdle == given = <<>> /\ result = <<>> /\ stage = "idle"

FileIdle ==
    /\ file = <<>>
    /\ conversion_stats = [tables_processed |-> 0, inserts_processed |-> 0,
                           lines_processed |-> 0]
    /\ current_table_lines = <<>>
    /\ current_insert_lines = <<>>
    /\ in_create_table = FALSE
    /\ in_insert_statement = FALSE
    /\ def_outfile = <<>>
    /\ inserts_outfile = <<>>

\* extract_sample_inserts has not run: its dictionary and its list are empty
SampleIdle == table_inserts = <<>> /\ table_order = <<>> /\ outfile = <<>>

(***************************************************************************)
(* SpecValues: the Literal Tokenizer and the String Sanitizer applied to   *)
(* the value list of an insert line, VALUES (<given>);  The line is        *)
(* tokenized, then passed through escape_quotes_in_values and              *)
(* fix_problematic_strings as fix_data_type_issues does, and then through  *)
(* both once more.                                                         *)
(***************************************************************************)

\* the longest value list drawn character by character
MaxLen == 4

\* the most runs of RepeatThreshold equal characters in a drawn literal
MaxRuns == 10

ShortAlphabet == {"'", ",", "a", " ", "\""}

ShortLists == UNION {[1..n -> ShortAlphabet] : n \in 0..MaxLen}

\* n characters without a run and without a keyword
Filler(n) == [i \in 1..n |-> IF i % 2 = 1 THEN "a" ELSE "b"]

\* literals whose content has k quote characters after n other characters,
\* around the truncation threshold
LongLiterals ==
    {<<"'">> \o Filler(n) \o [i \in 1..k |-> "'"] \o tail \o <<"'">> :
        n \in (TruncateThreshold - 5)..(TruncateThreshold + 1),
        k \in {0, 2, 4},
        tail \in {<<>>, <<"y","z">>}}

RunChars == <<"c","d","e","f","g","h">>

\* literals whose content is r runs of RepeatThreshold equal characters
RunLiterals ==
    {<<"'">> \o [i \in 1..(RepeatThreshold * r) |->
                RunChars[(((i - 1) \div RepeatThreshold) % Len(RunChars)) + 1]] \o <<"'">> :
        r \in 1..MaxRuns}

\* literals whose content has a run of k doubled quotes, below and above the
\* repeat threshold
QuoteRunLiterals ==
    {<<"'">> \o before \o [i \in 1..(2 * k) |-> "'"] \o after \o <<"'">> :
        k \in {RepeatThreshold \div 2, (RepeatThreshold + 1) \div 2, RepeatThreshold},
        before \in {<<>>, <<"a">>},
        after \in {<<>>, <<"b">>}}

OBrienList == <<"1",","," ","'","O","'","'","B","r","i","e","n","'",","," ","N","U","L","L">>

NamedLists ==
    {OBrienList, <<"'","[",";","'">>, <<"'"," ","[",";"," ","'">>, <<"1",","," ","'","[",";","'",","," ","2">>, <<"'","s","e","l","e","c","t"," ","*"," ","w","i","t","h"," ","x","'">>, <<"'","a","[","b","]",";","c","\\","d","'">>,
     <<"'","r","v",":","1",".","5"," ","v","e","r","s","i","o","n",":","2",".","0","'">>, <<"'","O","'","'","B","r","i","e","n","'">>, <<"'","i","t","'","'","s","'",","," ","'","x","'","'","'","'","y","'">>,
     <<"'","[","a","b","c",";","'">>, <<"'","[","a","]",";","'">>}

ValueLists ==
    ShortLists \cup LongLiterals \cup RunLiterals \cup QuoteRunLiterals \cup NamedLists

ValuesLine(values_part) == <<"V","A","L","U","E","S"," ","(">> \o values_part \o <<")",";">>

ValuesInit ==
    /\ given \in ValueLists
    /\ result = [tokens |-> <<>>, lines |-> <<>>]
    /\ stage = "start"
    /\ FileIdle
    /\ SampleIdle

\* the split of the value list (escape_quotes_in_values, lines 406-444)
Tokenize ==
    /\ stage = "start"
    /\ result' = [tokens |-> tokenize(given), lines |-> <<ValuesLine(given)>>]
    /\ stage' = "tokenized"
    /\ UNCHANGED <<given, file_vars, sample_vars>>

\* line = self.escape_quotes_in_values(line)
EscapeQuotes ==
    /\ stage \in {"tokenized", "sanitized"}
    /\ result' = [result EXCEPT
                    !.lines = Append(@, escape_quotes_in_values(@[Len(@)]))]
    /\ stage' = IF stage = "tokenized" THEN "escaped" ELSE "escaped again"
    /\ UNCHANGED <<given, file_vars, sample_vars>>

\* line = self.fix_problematic_strings(line)
FixProblematicStrings ==
    /\ stage \in {"escaped", "escaped again"}
    /\ result' = [result EXCEPT
                    !.lines = Append(@, fix_problematic_strings(@[Len(@)]))]
    /\ stage' = IF stage = "escaped" THEN "sanitized" ELSE "sanitized again"
    /\ UNCHANGED <<given, file_vars, sample_vars>>

ValuesNext == Tokenize \/ EscapeQuotes \/ FixProblematicStrings

SpecValues == ValuesInit /\ [][ValuesNext]_vars

\* every maximal run of quote characters in c has an even length: the quotes
\* of c all belong to doubled pairs
QuotesAllDoubled(c) ==
    \A i \in 1..Len(c) :
        (c[i] = "'" /\ (i = 1 \/ c[i - 1] # "'")) => (RunEnd(c, i) - i) % 2 = 0

\* a literal token as the data model has it: quoted, its interior quotes all
\* in doubled pairs
ProperLiteral(t) ==
    /\ Len(t) >= 2
    /\ t[1] = "'"
    /\ t[Len(t)] = "'"
    /\ QuotesAllDoubled(SubSeq(t, 2, Len(t) - 1))

\* the value list of a line  VALUES (...)  or  VALUES (...);
ValuesOf(line) ==
    SubSeq(line, 9, IF EndsWith(line, <<";">>) THEN Len(line) - 2 ELSE Len(line) - 1)

\* the content of the one literal of a line  VALUES ('...')
ContentOf(line) == SubSeq(ValuesOf(line), 2, Len(ValuesOf(line)) - 1)

\* C1: sanitizing a literal token twice (escape_quotes_in_values, then
\* fix_problematic_strings, and both again) gives the same token as sanitizing
\* it once.
C1_SanitizeIsIdempotent ==
    (stage = "sanitized again" /\ ProperLiteral(Strip(given))) =>
        result.lines[5] = result.lines[3]

\* C2: the value list (1, 'O''Brien', NULL) gives exactly three tokens and its
\* second token is emitted unchanged; a literal token whose interior quotes are
\* all doubled is left unchanged by the re-escaping.
C2_DoubledQuotesUnchanged ==
    /\ (given = OBrienList /\ stage # "start") => Len(result.tokens) = 3
    /\ (given = OBrienList /\ Len(result.lines) >= 2) =>
           result.lines[2] = <<"V","A","L","U","E","S"," ","(","1",","," ","'","O","'","'","B","r","i","e","n","'",","," ","N","U","L","L",")">>
    /\ (ProperLiteral(Strip(given)) /\ Len(result.lines) >= 2) =>
           result.lines[2] = <<"V","A","L","U","E","S"," ","(">> \o Strip(given) \o <<")">>

RECURSIVE LiteralClose(_, _, _)
\* the index of the quote that closes a literal opened with q, looked for from
\* index i: the first q that is not the first of a doubled pair; 0 when the
\* literal is never closed
LiteralClose(s, i, q) ==
    LET k == NextOf(s, i, {q})
    IN  IF k > Len(s) THEN 0
        ELSE IF k + 1 <= Len(s) /\ s[k + 1] = q THEN LiteralClose(s, k + 2, q)
        ELSE k

RECURSIVE TopLevel(_, _, _)
\* the commas of s outside any literal, and whether every literal is closed,
\* read from index i (outside a literal) with n commas counted so far
TopLevel(s, i, n) ==
    LET j == NextOf(s, i, {"'", "\"", ","})
        close == LiteralClose(s, j + 1, s[j])
    IN  IF j > Len(s) THEN [commas |-> n, wellformed |-> TRUE]
        ELSE IF s[j] = "," THEN TopLevel(s, j + 1, n + 1)
        ELSE IF close = 0 THEN [commas |-> n, wellformed |-> FALSE]
        ELSE TopLevel(s, close + 1, n)

\* C3: for every value list whose literals are all closed, the tokenizer emits
\* (number of top-level commas) + 1 tokens, an empty position or an empty list
\* included.
C3_TokensAreCommasPlusOne ==
    (stage # "start" /\ TopLevel(given, 1, 0).wellformed) =>
        Len(result.tokens) = TopLevel(given, 1, 0).commas + 1

\* the length of c with every doubled quote counted once
UnescapedLen(c) == Len(Replace(c, <<"'","'">>, <<"'">>))

\* C6: for every literal token, the content the sanitizer produces has an
\* un-escaped length of at most 100 + len(truncation marker).
C6_SanitizedLengthBounded ==
    (Len(result.lines) >= 3 /\ ProperLiteral(Strip(given))) =>
        UnescapedLen(ContentOf(result.lines[3]))
            <= TruncateThreshold + Len(TruncationMarker)

\* C7: whenever the sanitizer truncates content made of non-quote characters
\* and doubled quotes, the kept prefix holds only complete pairs.  (The content
\* is that of the literal handed to fix_problematic_strings, here letters
\* without a keyword or a long run, so that truncation is the only rule that
\* applies.)
C7_TruncationKeepsPairs ==
    (/\ Len(result.lines) >= 3
     /\ ProperLiteral(ValuesOf(result.lines[2]))
     /\ Len(ContentOf(result.lines[2])) > TruncateThreshold
     /\ \A i \in 1..Len(ContentOf(result.lines[2])) :
            ContentOf(result.lines[2])[i] \in {"a", "b", "y", "z", "'"}
     /\ \A i \in 1..Len(ContentOf(result.lines[2])) :
            RunEnd(ContentOf(result.lines[2]), i) - i < RepeatThreshold)
    => QuotesAllDoubled(ContentOf(result.lines[3]))

\* the content of the value list when it is one properly quoted literal
GivenContent == SubSeq(Strip(given), 2, Len(Strip(given)) - 1)

\* the content begins with an open square bracket and ends with a semicolon
BracketToSemicolon(c) == Len(c) >= 2 /\ c[1] = "[" /\ c[Len(c)] = ";"

\* C21: in the sanitizer, any literal content that begins with an open square
\* bracket and ends with a semicolon, not only the exact content [; , is
\* replaced wholesale by the sentinel MALFORMED_STRING.
C21_BracketToSemicolonIsSentinel ==
    (/\ Len(result.lines) >= 3
     /\ ProperLiteral(Strip(given))
     /\ BracketToSemicolon(GivenContent))
    => result.lines[3] = <<"V","A","L","U","E","S"," ","(","'","M","A","L","F","O","R","M","E","D","_","S","T","R","I","N","G","'",")">>

\* C22: every literal token emitted after sanitization is well-formed: it
\* starts and ends with a single quote and every quote between them belongs to
\* a doubled pair, for every input literal token, content longer than 100
\* characters and content with runs of 11 or more quotes included.
C22_SanitizedLiteralIsProper ==
    (Len(result.lines) >= 3 /\ ProperLiteral(Strip(given))) =>
        ProperLiteral(ValuesOf(result.lines[3]))

(***************************************************************************)
(* SpecType: the Type Translator applied to the fixed-point numeric types  *)
(* NUMBER(p) and NUMBER(p,s), 0 <= s <= p <= MaxPrecision.                 *)
(***************************************************************************)

MaxPrecision == 38

\* the source text of the type; scale -1 stands for the form without a scale
NumberText(p, s) ==
    <<"N","U","M","B","E","R","(">> \o FormatInt(p) \o (IF s < 0 THEN <<>> ELSE <<",">> \o FormatInt(s)) \o <<")">>

TypeInit ==
    /\ \E p \in 0..MaxPrecision : \E s \in -1..p :
          given = [precision |-> p, scale |-> s, text |-> NumberText(p, s)]
    /\ result = <<>>
    /\ stage = "start"
    /\ FileIdle
    /\ SampleIdle

\* sql_server_type = self.convert_data_type(oracle_type)
ConvertDataType ==
    /\ stage = "start"
    /\ result' = <<convert_data_type(given.text)>>
    /\ stage' = "converted"
    /\ UNCHANGED <<given, file_vars, sample_vars>>

\* sql_server_type = self.fix_data_type_precision(sql_server_type)
FixDataTypePrecision ==
    /\ stage = "converted"
    /\ result' = Append(result, fix_data_type_precision(result[1]))
    /\ stage' = "fixed"
    /\ UNCHANGED <<given, file_vars, sample_vars>>

TypeNext == ConvertDataType \/ FixDataTypePrecision

SpecType == TypeInit /\ [][TypeNext]_vars

\* The numeric modifiers of a type signature: the numbers between its
\* parentheses, in order (none for a bare name).
Modifiers(t) ==
    LET open == Find(t, <<"(">>)
        close == Find(t, <<")">>)
        parts == Split(SubSeq(t, open + 1, close - 1), ",")
    IN  IF open = 0 \/ close < open THEN <<>>
        ELSE [k \in 1..Len(parts) |-> ParseInt(parts[k])]

\* C4 as stated: for every NUMBER(p,s) with p in 0..38 and s in 0..p, no numeric
\* modifier of the translated type (convert_data_type, then
\* fix_data_type_precision) is 0.
C4_NoModifierIsZero ==
    (stage = "fixed" /\ given.scale >= 0) =>
        \A k \in 1..Len(Modifiers(result[2])) : Modifiers(result[2])[k] # 0

\* C4 as amended: for every NUMBER(p,s) with p in 0..38 and s in 0..p, the first
\* numeric modifier (the precision) of the translated type is never 0, and its
\* scale modifier, when it has one, is 0 only when the source scale s is 0.
C4_PrecisionIsNeverZero ==
    (stage = "fixed" /\ given.scale >= 0) =>
        LET m == Modifiers(result[2])
        IN  /\ Len(m) >= 1 => m[1] # 0
            /\ Len(m) >= 2 => (m[2] = 0 <=> given.scale = 0)

\* C4's case: a fixed-point type with scale 0 translated to a parametrized type
C4_Witness ==
    /\ stage = "fixed"
    /\ given.precision = MaxPrecision
    /\ given.scale = 0
    /\ Modifiers(result[2]) = <<MaxPrecision, 0>>

\* the target type C5 states for precision p and scale s
C5_Stated(p, s) ==
    CASE p \in 0..1   -> <<"B","I","T">>
      [] p \in 2..3   -> <<"T","I","N","Y","I","N","T">>
      [] p \in 4..5   -> <<"S","M","A","L","L","I","N","T">>
      [] p \in 6..10  -> <<"I","N","T">>
      [] p \in 11..19 -> <<"B","I","G","I","N","T">>
      [] OTHER        -> <<"D","E","C","I","M","A","L","(">> \o FormatInt(p) \o <<",">> \o FormatInt(s) \o <<")">>

\* C5: for every NUMBER(p) and NUMBER(p,s), the scale defaulting to 0,
\* convert_data_type returns BIT for p <= 1 (p = 0 included), TINYINT for
\* 2..3, SMALLINT for 4..5, INT for 6..10, BIGINT for 11..19 and DECIMAL(p,s)
\* from 20 on.
C5_PrecisionThresholds ==
    stage \in {"converted", "fixed"} =>
        result[1] = C5_Stated(given.precision, IF given.scale < 0 THEN 0 ELSE given.scale)

\* C5's case: a type without a scale, beyond the last threshold, has been converted
C5_Witness ==
    /\ stage = "converted"
    /\ given.precision = 20
    /\ given.scale = -1
    /\ result[1] = <<"D","E","C","I","M","A","L","(","2","0",",","0",")">>

(***************************************************************************)
(* SpecTimestamp: convert_oracle_functions applied to a to_timestamp call, *)
(* alone or inside a value list with sysdate and to_date.                  *)
(***************************************************************************)

DayFields == {<<"0","1">>, <<"1">>, <<"3","1">>}

MonthFields == {<<"J","A","N">>, <<"F","E","B">>, <<"D","E","C">>, <<"X","X","X">>, <<"J","A","N","-","0","1">>}

YearFields == {<<"0","0">>, <<"0","5">>, <<"4","9">>, <<"5","0">>, <<"9","9">>, <<"Y","Y">>}

\* time fields written with colons, with dots, short, with a meridian, and
\* with a blank or a double quote after them
TimeFields ==
    {<<"1","2",":","3","0",":","0","0",".","0">>, <<"1","2",".","3","0",".","0","0",".","0">>, <<"1","2",".","3","0">>, <<"1","2",":","3","0",":","0","0">>, <<"1","2",".","3","0",".","0","0",".","0","0","0","0","0","0","0","0","0"," ","A","M">>, <<"1",".","2",".","3">>,
     <<"1","2",":","3","0",":","0","0"," ">>, <<"1","2",":","3","0","\"">>}

DateString(g) == g.day \o <<"-">> \o g.month \o <<"-">> \o g.year \o <<" ">> \o g.time

TimestampCall(g) == <<"t","o","_","t","i","m","e","s","t","a","m","p","(","'">> \o DateString(g) \o <<"'",","," ","'","D","D","-","M","O","N","-","Y","Y","'",")">>

\* the text handed to convert_oracle_functions
FunctionText(g) ==
    IF g.alone THEN TimestampCall(g)
    ELSE <<"v","a","l","u","e","s"," ","(","s","y","s","d","a","t","e",","," ">> \o TimestampCall(g) \o <<","," ","t","o","_","d","a","t","e","(","'","0","1","-","J","A","N","-","9","9","'",",","'","D","D","-","M","O","N","-","Y","Y","'",")",")">>

TimestampInit ==
    /\ given \in [day : DayFields, month : MonthFields, year : YearFields,
                  time : TimeFields, alone : BOOLEAN]
    /\ result = <<>>
    /\ stage = "start"
    /\ FileIdle
    /\ SampleIdle

\* line = self.convert_oracle_functions(line)
ConvertOracleFunctions ==
    /\ stage = "start"
    /\ result' = <<convert_oracle_functions(FunctionText(given))>>
    /\ stage' = "converted"
    /\ UNCHANGED <<given, file_vars, sample_vars>>

TimestampNext == ConvertOracleFunctions

SpecTimestamp == TimestampInit /\ [][TimestampNext]_vars

\* the text the call is to become, in the text around it
AroundLiteral(g, literal) ==
    IF g.alone THEN literal
    ELSE <<"v","a","l","u","e","s"," ","(","G","E","T","D","A","T","E","(",")",","," ">> \o literal \o <<","," ","'","0","1","-","J","A","N","-","9","9","'",")">>

\* C8: convert_oracle_functions rewrites to_timestamp('01-JAN-99 12:30:00.0',
\* 'DD-MON-YY') to '1999-01-01 12:30:00.000' and the call with year 05 to a
\* literal of year 2005; a date string DD-MON-YY HH:MM:SS.f becomes
\* 'YYYY-MM-DD HH:MM:SS.000', the year expanded by the pivot (yy < 50 adds
\* 2000, otherwise 1900).
C8_TimestampRewritten ==
    (/\ stage = "converted"
     /\ given.time = <<"1","2",":","3","0",":","0","0",".","0">>
     /\ Len(given.day) = 2
     /\ given.month \in {<<"J","A","N">>, <<"F","E","B">>, <<"D","E","C">>}
     /\ IsInt(given.year))
    => result[1] = AroundLiteral(given,
           <<"'">> \o (IF ParseInt(given.year) < 50 THEN <<"2","0">> ELSE <<"1","9">>) \o given.year
               \o <<"-">> \o month_map(given.month) \o <<"-">> \o given.day
               \o <<" ","1","2",":","3","0",":","0","0",".","0","0","0","'">>)

\* the date string as convert_to_timestamp takes it: without the blanks and
\* the quote characters around it
TrimmedDate(g) == StripQuotes(Strip(DateString(g)))

\* the date string cannot be parsed: it has not two parts separated by a
\* blank, or its date has not three parts separated by dashes, or its time has
\* less than two parts separated by dots, or its year is no number
CannotParse(g) ==
    LET halves == Split(TrimmedDate(g), " ")
    IN  \/ Len(halves) # 2
        \/ Len(Split(halves[1], "-")) # 3
        \/ Len(Split(halves[2], ".")) < 2
        \/ ~IsInt(Split(halves[1], "-")[3])

InsertHeads ==
    {<<"I","n","s","e","r","t"," ","i","n","t","o"," ","A","D","M","I","N",".","T","1"," ","(","I","D",",","N","A","M","E",")"," ","v","a","l","u","e","s"," ","(">>, <<"I","n","s","e","r","t"," ","i","n","t","o"," ","A","D","M","I","N",".","T","1","(","I","D",","," ","N","A","M","E",")"," ","v","a","l","u","e","s"," ","(">>}

InsertValues ==
    {<<"1",",","'","a","'">>, <<"1",",","'","[",";","'">>, <<"'","[",";","'",",","2">>, <<"'","[",";","'">>, <<"1",",","'"," ","[",";"," ","'">>, <<"1",",","'","x","[",";","'">>, <<"1",",","n","u","l","l">>, <<"1",",","'","O","'","'","B","r","i","e","n","'">>,
     <<"1",",","'","b","e","c","a","u","s","e"," ","'">>, <<"1",",","'","5","E","3","'">>, <<"s","y","s","d","a","t","e",",","'","w","i","t","h","'">>,
     <<"1",",","t","o","_","t","i","m","e","s","t","a","m","p","(","'","0","1","-","J","A","N","-","9","9"," ","1","2",".","3","0",".","0","0",".","0","'",",","'","D","D","-","M","O","N","-","Y","Y","'",")">>, <<"1",",","'","a","'",")",";">>, <<"1",",","'","a","b","c">>}

InsertText(g) == g.head \o g.values \o <<")",";">>

InsertInit ==
    /\ given \in [head : InsertHeads, values : InsertValues]
    /\ result = <<>>
    /\ stage = "start"
    /\ FileIdle
    /\ SampleIdle

\* the variables of process_file that convert_insert_statement leaves alone
assembler_vars == <<file, current_table_lines, current_insert_lines, in_create_table,
                    in_insert_statement, def_outfile, inserts_outfile>>

\* line = re.sub(rf'Insert into {self.schema_name}\.([^\s]+)\s*\(', ...)
RewriteHead ==
    /\ stage = "start"
    /\ result' = <<InsertHead(InsertText(given))>>
    /\ stage' = "head"
    /\ UNCHANGED <<given, file_vars, sample_vars>>

\* line = re.sub(r'\(([^)]+)\)\s+values', add_brackets_to_columns, line)
RewriteColumns ==
    /\ stage = "head"
    /\ result' = Append(result, BracketColumns(result[Len(result)]))
    /\ stage' = "columns"
    /\ UNCHANGED <<given, file_vars, sample_vars>>

\* line = re.sub(r'\)\s*\(', ') VALUES (', line)
RewriteValuesKeyword ==
    /\ stage = "columns"
    /\ result' = Append(result, ValuesKeyword(result[Len(result)]))
    /\ stage' = "values"
    /\ UNCHANGED <<given, file_vars, sample_vars>>

\* line = self.convert_oracle_functions(line)
RewriteFunctions ==
    /\ stage = "values"
    /\ result' = Append(result, convert_oracle_functions(result[Len(result)]))
    /\ stage' = "functions"
    /\ UNCHANGED <<given, file_vars, sample_vars>>

\* line = re.sub(r'\bnull\b', 'NULL', line, flags=re.IGNORECASE)
RewriteNull ==
    /\ stage = "functions"
    /\ result' = Append(result, NullKeyword(result[Len(result)]))
    /\ stage' = "null"
    /\ UNCHANGED <<given, file_vars, sample_vars>>

\* line = self.fix_malformed_statements(line), and the return of the line when
\* it was commented out
FixMalformedStatements ==
    /\ stage = "null"
    /\ result' = Append(result, fix_malformed_statements(result[Len(result)]))
    /\ stage' = IF IsCommentedOut(fix_malformed_statements(result[Len(result)]))
                THEN "fixed" ELSE "checked"
    /\ UNCHANGED <<given, file_vars, sample_vars>>

\* line = self.escape_quotes_in_values(line)
FixQuotes ==
    /\ stage = "checked"
    /\ result' = Append(result, escape_quotes_in_values(result[Len(result)]))
    /\ stage' = "escaped"
    /\ UNCHANGED <<given, file_vars, sample_vars>>

\* line = self.fix_problematic_strings(line)
FixStrings ==
    /\ stage = "escaped"
    /\ result' = Append(result, fix_problematic_strings(result[Len(result)]))
    /\ stage' = "sanitized"
    /\ UNCHANGED <<given, file_vars, sample_vars>>

\* line = self.fix_numeric_issues(line)
FixNumeric ==
    /\ stage = "sanitized"
    /\ result' = Append(result, fix_numeric_issues(result[Len(result)]))
    /\ stage' = "numeric"
    /\ UNCHANGED <<given, file_vars, sample_vars>>

\* line = self.fix_extra_parentheses(line)
FixParentheses ==
    /\ stage = "numeric"
    /\ result' = Append(result, fix_extra_parentheses(result[Len(result)]))
    /\ stage' = "fixed"
    /\ UNCHANGED <<given, file_vars, sample_vars>>

\* self.conversion_stats['inserts_processed'] += 1; return line
CountInsert ==
    /\ stage = "fixed"
    /\ conversion_stats' = [conversion_stats EXCEPT !.inserts_processed = @ + 1]
    /\ stage' = "returned"
    /\ UNCHANGED <<given, result, assembler_vars, sample_vars>>

\* fix_problematic_strings called on the statement as it is
SanitizeAlone ==
    /\ stage = "start"
    /\ result' = <<fix_problematic_strings(InsertText(given))>>
    /\ stage' = "sanitized alone"
    /\ UNCHANGED <<given, file_vars, sample_vars>>

InsertNext ==
    \/ RewriteHead
    \/ RewriteColumns
    \/ RewriteValuesKeyword
    \/ RewriteFunctions
    \/ RewriteNull
    \/ FixMalformedStatements
    \/ FixQuotes
    \/ FixStrings
    \/ FixNumeric
    \/ FixParentheses
    \/ CountInsert
    \/ SanitizeAlone

SpecInsert == InsertInit /\ [][InsertNext]_vars

\* the value list has a literal token whose content, blanks aside, is [;
HasBracketLiteral(values) ==
    \E k \in 1..Len(tokenize(values)) :
        LET t == tokenize(values)[k]
        IN  /\ Len(t) >= 2
            /\ t[1] = "'"
            /\ t[Len(t)] = "'"
            /\ Strip(SubSeq(t, 2, Len(t) - 1)) = <<"[",";">>

\* the last line a stage returned
Returned == result[Len(result)]

\* C9 as stated: a literal token whose trimmed content is exactly [; is
\* rewritten to 'MALFORMED_STRING' whatever the statement around it, by the
\* sanitizer alone and by the full insert pipeline.
C9_BracketLiteralIsSentinel ==
    (stage \in {"sanitized alone", "returned"} /\ HasBracketLiteral(given.values)) =>
        (Contains(Returned, <<"'","M","A","L","F","O","R","M","E","D","_","S","T","R","I","N","G","'">>) /\ ~Contains(Returned, <<"[",";">>))

\* C9 as the code has it: fix_problematic_strings on its own rewrites a
\* literal whose content is exactly [; (no blanks around it) to
\* 'MALFORMED_STRING' and leaves the rest of the statement as it is, while a
\* literal ' [; ' only has its characters replaced; the insert pipeline never
\* gives the sentinel: a statement that holds '[; comes back whole as a
\* -- SKIPPED MALFORMED LINE comment of the statement rewritten so far.
C9_SentinelOnlyWhenSanitizedAlone ==
    /\ (stage = "sanitized alone" /\ Contains(given.values, <<"'","[",";","'">>)) =>
           Returned = Replace(InsertText(given), <<"'","[",";","'">>, <<"'","M","A","L","F","O","R","M","E","D","_","S","T","R","I","N","G","'">>)
    /\ (stage = "sanitized alone" /\ Contains(given.values, <<"'"," ","[",";"," ","'">>)) =>
           Returned = Replace(InsertText(given), <<"'"," ","[",";"," ","'">>, <<"'"," ","(",","," ","'">>)
    /\ (stage = "returned" /\ Contains(given.values, <<"'","[",";">>)) =>
           /\ Returned = <<"-","-"," ","S","K","I","P","P","E","D"," ","M","A","L","F","O","R","M","E","D"," ","L","I","N","E",":"," ">> \o Strip(result[5])
           /\ Contains(Returned, given.values)
           /\ ~Contains(Returned, <<"M","A","L","F","O","R","M","E","D","_","S","T","R","I","N","G">>)
    /\ (stage = "returned" /\ Contains(given.values, <<"'"," ","[",";"," ","'">>)) =>
           (Contains(Returned, <<"'"," ","(",","," ","'">>) /\ ~Contains(Returned, <<"M","A","L","F","O","R","M","E","D","_","S","T","R","I","N","G">>))

C9_Witness ==
    /\ stage = "returned"
    /\ given.values = <<"1",",","'","[",";","'">>
    /\ StartsWith(Returned, <<"-","-"," ","S","K","I","P","P","E","D"," ","M","A","L","F","O","R","M","E","D"," ","L","I","N","E",":"," ","I","N","S","E","R","T"," ","I","N","T","O"," ","[","A","D","M","I","N","]",".","[","T","1","]"," ">>)

\* the text has a call convert_oracle_functions translates
HasFunctionCall(s) == Contains(s, <<"s","y","s","d","a","t","e">>) \/ Contains(s, <<"t","o","_","t","i","m","e","s","t","a","m","p","(">>)

\* the stages of convert_insert_statement before and after line 667
BeforeFunctions == {"start", "head", "columns", "values"}

AfterFunctions ==
    {"functions", "null", "checked", "escaped", "sanitized", "numeric", "fixed", "returned"}

\* the stages after fix_problematic_strings has returned (line 634)
AfterSanitizer == {"sanitized", "numeric", "fixed", "returned"}

\* the value list of the statement once the functions are translated
TranslatedValues(values) ==
    IF values = <<"s","y","s","d","a","t","e",",","'","w","i","t","h","'">> THEN <<"G","E","T","D","A","T","E","(",")",",","'","w","i","t","h","'">>
    ELSE <<"1",",","'","1","9","9","9","-","0","1","-","0","1"," ","1","2",":","3","0",":","0","0",".","0","0","0","'">>

\* the value list of the statement as convert_insert_statement returns it
FinalValues(values) ==
    IF values = <<"s","y","s","d","a","t","e",",","'","w","i","t","h","'">> THEN <<"G","E","T","D","A","T","E","(",")",","," ","'","w","/","'">>
    ELSE <<"1",","," ","'","1","9","9","9","-","0","1","-","0","1"," ","1","2",":","3","0",":","0","0",".","0","0","0","'">>

UnterminatedLiteral(values) ==
    Cardinality({k \in 1..Len(values) : values[k] = "'"}) % 2 = 1

\* C14 as stated: an insert statement with a structural malformation (an
\* unterminated literal, or a literal that begins with [;) is returned as a
\* commented-out line with the skipped/malformed marker and is not passed
\* through the quote, string, numeric and parenthesis rewrites.
C14_MalformedIsCommentedOut ==
    (/\ stage = "returned"
     /\ (UnterminatedLiteral(given.values) \/ Contains(given.values, <<"'","[",";">>))) =>
        /\ StartsWith(Returned, <<"-","-"," ","S","K","I","P","P","E","D"," ","M","A","L","F","O","R","M","E","D"," ","L","I","N","E",":"," ">>)
        /\ Len(result) = 6

\* C14 as the code has it: only the pattern '[; is looked for.  A statement
\* with it is returned as the comment -- SKIPPED MALFORMED LINE: followed by
\* the statement as rewritten up to the NULL keyword, and the four rewrites
\* of fix_data_type_issues are not applied to it; a statement with an
\* unterminated literal is not commented out and goes through all of them.
\* Both are counted as processed.
C14_OnlyBracketPatternIsCommentedOut ==
    stage = "returned" =>
        /\ conversion_stats.inserts_processed = 1
        /\ Contains(given.values, <<"'","[",";">>) =>
               /\ Len(result) = 6
               /\ Returned = <<"-","-"," ","S","K","I","P","P","E","D"," ","M","A","L","F","O","R","M","E","D"," ","L","I","N","E",":"," ">> \o Strip(result[5])
               /\ EndsWith(Returned, <<" ","V","A","L","U","E","S"," ","(">> \o given.values \o <<")",";">>)
        /\ (UnterminatedLiteral(given.values) /\ ~Contains(given.values, <<"'","[",";">>)) =>
               /\ Len(result) = 10
               /\ ~IsCommentedOut(Returned)
               /\ Returned = <<"I","N","S","E","R","T"," ","I","N","T","O"," ","[","A","D","M","I","N","]",".","[","T","1","]"," ","(","[","I","D","]",","," ","[","N","A","M","E","]",")"," ","V","A","L","U","E","S"," ","(","1",","," ","'","a","b","c",")">>

C14_Witness ==
    /\ stage = "returned"
    /\ given.values = <<"'","[",";","'",",","2">>
    /\ Returned = <<"-","-"," ","S","K","I","P","P","E","D"," ","M","A","L","F","O","R","M","E","D"," ","L","I","N","E",":"," ","I","N","S","E","R","T"," ","I","N","T","O"," ","[","A","D","M","I","N","]",".","[","T","1","]"," ","(","[","I","D","]",","," ","[","N","A","M","E","]",")"," ","V","A","L","U","E","S"," ","(","'","[",";","'",",","2",")",";">>

\* C23: fix_malformed_statements comments a line out as Oracle specific only
\* when the line is a session-control directive (USE, SET DEFINE, ALTER
\* SESSION): an insert statement whose literal data merely contains such text
\* (the value 'because ', whose upper-case form contains USE and a blank) is
\* not commented out and is rewritten normally.
C23_DataIsNotADirective ==
    stage = "returned" =>
        /\ ~EndsWith(Returned, <<"(","O","r","a","c","l","e"," ","s","p","e","c","i","f","i","c",","," ","c","o","m","m","e","n","t","e","d"," ","o","u","t",")">>)
        /\ given.values = <<"1",",","'","b","e","c","a","u","s","e"," ","'">> =>
               Returned = <<"I","N","S","E","R","T"," ","I","N","T","O"," ","[","A","D","M","I","N","]",".","[","T","1","]"," ","(","[","I","D","]",","," ","[","N","A","M","E","]",")"," ","V","A","L","U","E","S"," ","(","1",","," ","'","b","e","c","a","u","s","e"," ","'",")">>

(***************************************************************************)
(* Spec: the Statement Assembler, process_file.  The input file is read    *)
(* line by line (a line is modelled without its line break); each action   *)
(* is one branch of the loop body.  def_outfile and inserts_outfile hold   *)
(* the lines written after the header.                                     *)
(***************************************************************************)

\* the definition block of the scenario, as the tokens a wrapping keeps whole
T1Tokens ==
    << <<"C","R","E","A","T","E"," ","T","A","B","L","E"," ","\"","A","D","M","I","N","\"",".","\"","T","1","\"">>, <<"(">>, <<"\"","I","D","\""," ","N","U","M","B","E","R","(","1","0",")",",">>,
       <<"\"","N","A","M","E","\""," ","V","A","R","C","H","A","R","2","(","5","0",")"," ","D","E","F","A","U","L","T"," ","'","x","'">>, <<")">> >>

RECURSIVE WrapFrom(_, _, _, _)
\* the lines of tokens k.. appended to lines: token k goes on a new line when
\* newline[k - 1], else at the end of the last line after a blank
WrapFrom(tokens, newline, k, lines) ==
    IF k > Len(tokens) THEN lines
    ELSE IF newline[k - 1]
    THEN WrapFrom(tokens, newline, k + 1, Append(lines, tokens[k]))
    ELSE WrapFrom(tokens, newline, k + 1,
                  [lines EXCEPT ![Len(lines)] = @ \o <<" ">> \o tokens[k]])

\* every wrapping of the tokens across physical lines
Wrappings(tokens) ==
    {WrapFrom(tokens, newline, 2, <<tokens[1]>>) :
        newline \in [1..(Len(tokens) - 1) -> BOOLEAN]}

LinesBefore == {<<>>, <<<<"-","-"," ","D","D","L"," ","f","o","r"," ","T","a","b","l","e"," ","T","1">>, <<"S","E","T"," ","D","E","F","I","N","E"," ","O","F","F",";">>, <<>>>>}

LinesAfter ==
    {<<>>,
     <<<<"I","n","s","e","r","t"," ","i","n","t","o"," ","A","D","M","I","N",".","T","1"," ","(","I","D",",","N","A","M","E",")"," ","v","a","l","u","e","s"," ","(","1",",","'","a","'",")",";">>>>,
     <<<<"I","n","s","e","r","t"," ","i","n","t","o"," ","A","D","M","I","N",".","T","1"," ","(","I","D",",","N","A","M","E",")">>, <<"v","a","l","u","e","s"," ","(","2",",">>, <<"'","b","'",")",";">>>>,
     <<<<"C","O","M","M","I","T",";">>>>}

\* the input files that hold the definition block of the scenario
T1Files ==
    {before \o block \o after :
        before \in LinesBefore, block \in Wrappings(T1Tokens), after \in LinesAfter}

\* an insert statement whose string value goes on over several physical lines
InsertStart == <<"I","n","s","e","r","t"," ","i","n","t","o"," ","A","D","M","I","N",".","T","1"," ","(","I","D",",","N","A","M","E",")"," ","v","a","l","u","e","s"," ","(","2",",","'","f","i","r","s","t"," ","l","i","n","e">>

InsertEnd == <<"l","a","s","t"," ","l","i","n","e","'",")",";">>

\* a statement that fix_malformed_statements comments out
MalformedInsert == <<"I","n","s","e","r","t"," ","i","n","t","o"," ","A","D","M","I","N",".","T","1"," ","(","I","D",",","N","A","M","E",")"," ","v","a","l","u","e","s"," ","(","3",",","'","[",";","'",")",";">>

\* the lines that may stand between the first and the last line of the statement
InsideLines ==
    {<<>>,
     <<<<"s","e","c","o","n","d"," ","l","i","n","e">>>>,
     <<<<"s","e","c","o","n","d"," ","l","i","n","e">>, <<" "," ","t","h","i","r","d"," ","l","i","n","e">>>>,
     <<<<"-","-"," ","a"," ","n","o","t","e">>>>,
     <<<<"R","E","M"," ","n","o","t","e">>>>,
     <<<<>>>>,
     <<<<"s","e","e"," ","C","R","E","A","T","E"," ","T","A","B","L","E"," ","i","n"," ","t","h","e"," ","m","a","n","u","a","l">>>>,
     <<<<"I","n","s","e","r","t"," ","i","n","t","o"," ","t","h","e"," ","l","o","g">>>>}

\* what follows the inside lines: nothing, the last line, the last line and
\* another statement
InsertTails ==
    {<<>>,
     <<InsertEnd>>,
     <<InsertEnd, MalformedInsert>>}

\* the input files that hold the multi-line statement
InsertFiles ==
    {<<InsertStart>> \o inside \o tail : inside \in InsideLines, tail \in InsertTails}

\* the column lines of table T2 but the first and the last
MiddleLines ==
    {<<>>,
     <<<<"\"","S","T","O","R","A","G","E","_","I","D","\""," ","N","U","M","B","E","R","(","1","0",")",",">>>>,
     <<<<"\"","L","O","G","G","I","N","G","_","L","E","V","E","L","\""," ","V","A","R","C","H","A","R","2","(","1","0",")",",">>>>,
     <<<<"\"","S","T","O","R","A","G","E","_","I","D","\""," ","N","U","M","B","E","R","(","1","0",")",",">>, <<"\"","L","O","G","G","I","N","G","_","L","E","V","E","L","\""," ","V","A","R","C","H","A","R","2","(","1","0",")",",">>>>,
     <<<<"-","-"," ","t","h","e"," ","n","a","m","e">>>>,
     <<<<>>>>}

\* the end of the definition block: a closing line, or storage clauses up to
\* the semicolon
TableTails ==
    {<<<<")">>>>,
     <<<<")"," ","S","E","G","M","E","N","T"," ","C","R","E","A","T","I","O","N"," ","I","M","M","E","D","I","A","T","E">>, <<"P","C","T","F","R","E","E"," ","1","0"," ","P","C","T","U","S","E","D"," ","4","0"," ","N","O","C","O","M","P","R","E","S","S"," ","L","O","G","G","I","N","G">>,
       <<"T","A","B","L","E","S","P","A","C","E"," ","\"","U","S","E","R","S","\""," ",";">>>>}

\* a definition block on one physical line, before the block of T2
UnflushedBefore == {<<>>, <<<<"C","R","E","A","T","E"," ","T","A","B","L","E"," ","\"","A","D","M","I","N","\"",".","\"","T","0","\""," ","(","\"","I","D","\""," ","N","U","M","B","E","R","(","1","0",")",")">>>>}

\* the definition block of table T2 with the given middle lines and tail
T2Block(middle, tail) ==
    <<<<"C","R","E","A","T","E"," ","T","A","B","L","E"," ","\"","A","D","M","I","N","\"",".","\"","T","2","\"">>, <<"(">>, <<"\"","I","D","\""," ","N","U","M","B","E","R","(","1","0",")",",">>>> \o middle
        \o <<<<"\"","N","A","M","E","\""," ","V","A","R","C","H","A","R","2","(","5","0",")">>>> \o tail

\* the input files that hold the definition block of table T2
T2Files ==
    {before \o T2Block(middle, tail) :
        before \in UnflushedBefore, middle \in MiddleLines, tail \in TableTails}

\* the type signatures of the second column of table T3
ColumnTypes == {<<"D","A","T","E">>, <<"V","A","R","C","H","A","R","2","(","5","0",")">>, <<"N","U","M","B","E","R","(","1","0",")">>, <<"T","I","M","E","S","T","A","M","P","(","6",")">>, <<"N","U","M","B","E","R","(","2","2",",","2",")">>}

\* the constraint text after the type signature
ColumnConstraints == {<<>>, <<" ","N","O","T"," ","N","U","L","L">>, <<" ","N","O","T"," ","N","U","L","L"," ","E","N","A","B","L","E">>}

\* the definition block of table T3: the column CREATED with the given type
\* and constraint, as the last column or followed by another one
T3Block(type, constraint, last) ==
    <<<<"C","R","E","A","T","E"," ","T","A","B","L","E"," ","\"","A","D","M","I","N","\"",".","\"","T","3","\"">>, <<"(">>, <<"\"","I","D","\""," ","N","U","M","B","E","R","(","1","0",")",",">>>>
        \o (IF last THEN <<<<"\"","C","R","E","A","T","E","D","\""," ">> \o type \o constraint>>
            ELSE <<<<"\"","C","R","E","A","T","E","D","\""," ">> \o type \o constraint \o <<",">>, <<"\"","N","A","M","E","\""," ","V","A","R","C","H","A","R","2","(","5","0",")">>>>)
        \o <<<<")">>>>

\* the input files that hold the definition block of table T3
T3Files ==
    {T3Block(type, constraint, last) :
        type \in ColumnTypes, constraint \in ColumnConstraints, last \in BOOLEAN}

InputFiles == T1Files \cup InsertFiles \cup T2Files \cup T3Files

Init ==
    /\ given \in InputFiles
    /\ file = given
    /\ result = <<>>
    /\ stage = "reading"
    /\ conversion_stats = [tables_processed |-> 0, inserts_processed |-> 0,
                           lines_processed |-> 0]
    /\ current_table_lines = <<>>
    /\ current_insert_lines = <<>>
    /\ in_create_table = FALSE
    /\ in_insert_statement = FALSE
    /\ def_outfile = <<>>
    /\ inserts_outfile = <<>>
    /\ SampleIdle

\* original_line and line = line.strip() of the iteration about to run
this_original_line == Head(file)

this_line == Strip(Head(file))

\* if line.startswith('--') or line.startswith('REM') or not line
IsSkipped(l) == StartsWith(l, <<"-","-">>) \/ StartsWith(l, <<"R","E","M">>) \/ l = <<>>

\* the test that ends a definition block (lines 781-785)
EndsTable(l) == EndsWith(l, <<";">>) \/ (Strip(l) = <<")">> /\ ~HasStorageKeyword(l))

\* what every iteration does first: the line is taken from infile and counted
ReadLine ==
    /\ stage = "reading"
    /\ file # <<>>
    /\ file' = Tail(file)
    /\ conversion_stats' = [conversion_stats EXCEPT !.lines_processed = @ + 1]

\* file.write(text + '\n') seen as lines: an empty text is one empty line
WrittenLines(lines) == IF lines = <<>> THEN <<<<>>>> ELSE lines

\* the mutation of SkipLine that reads the line without counting it
SkipLine_Uncounted ==
    /\ stage = "reading"
    /\ file # <<>>
    /\ file' = Tail(file)
    /\ IsSkipped(this_line)
    /\ UNCHANGED <<fn_vars, sample_vars, conversion_stats, current_table_lines,
                   current_insert_lines, in_create_table, in_insert_statement, def_outfile,
                   inserts_outfile>>

\* comment and blank lines: continue
SkipLine ==
    /\ ReadLine
    /\ IsSkipped(this_line)
    /\ UNCHANGED <<fn_vars, sample_vars, current_table_lines, current_insert_lines, in_create_table,
                   in_insert_statement, def_outfile, inserts_outfile>>

\* if 'CREATE TABLE' in line
StartTable ==
    /\ ReadLine
    /\ ~IsSkipped(this_line)
    /\ Contains(this_line, <<"C","R","E","A","T","E"," ","T","A","B","L","E">>)
    /\ in_create_table' = TRUE
    /\ current_table_lines' = <<this_line>>
    /\ UNCHANGED <<fn_vars, sample_vars, current_insert_lines, in_insert_statement, def_outfile,
                   inserts_outfile>>

\* if in_create_table, the line does not end the block
AccumulateTableLine ==
    /\ ReadLine
    /\ ~IsSkipped(this_line)
    /\ ~Contains(this_line, <<"C","R","E","A","T","E"," ","T","A","B","L","E">>)
    /\ in_create_table
    /\ ~EndsTable(this_line)
    /\ current_table_lines' = Append(current_table_lines, this_line)
    /\ UNCHANGED <<fn_vars, sample_vars, current_insert_lines, in_create_table, in_insert_statement,
                   def_outfile, inserts_outfile>>

\* if in_create_table, the line ends the block: convert_create_table and write
FlushTable ==
    /\ stage = "reading"
    /\ file # <<>>
    /\ ~IsSkipped(this_line)
    /\ ~Contains(this_line, <<"C","R","E","A","T","E"," ","T","A","B","L","E">>)
    /\ in_create_table
    /\ EndsTable(this_line)
    /\ file' = Tail(file)
    /\ conversion_stats' =
           [conversion_stats EXCEPT
               !.lines_processed = @ + 1,
               !.tables_processed = @ + TablesCounted(Append(current_table_lines, this_line))]
    /\ def_outfile' = def_outfile
           \o WrittenLines(convert_create_table(Append(current_table_lines, this_line)))
    /\ in_create_table' = FALSE
    /\ current_table_lines' = <<>>
    /\ UNCHANGED <<fn_vars, sample_vars, current_insert_lines, in_insert_statement, inserts_outfile>>

\* if line.startswith('Insert into') and line.endswith(';')
SingleLineInsert ==
    /\ stage = "reading"
    /\ file # <<>>
    /\ ~IsSkipped(this_line)
    /\ ~Contains(this_line, <<"C","R","E","A","T","E"," ","T","A","B","L","E">>)
    /\ ~in_create_table
    /\ StartsWith(this_line, <<"I","n","s","e","r","t"," ","i","n","t","o">>)
    /\ EndsWith(this_line, <<";">>)
    /\ file' = Tail(file)
    /\ conversion_stats' =
           [conversion_stats EXCEPT !.lines_processed = @ + 1,
                                    !.inserts_processed = @ + 1]
    /\ inserts_outfile' = Append(inserts_outfile, convert_insert_statement(this_line))
    /\ UNCHANGED <<fn_vars, sample_vars, current_table_lines, current_insert_lines, in_create_table,
                   in_insert_statement, def_outfile>>

\* if line.startswith('Insert into'), the statement goes on
StartInsert ==
    /\ ReadLine
    /\ ~IsSkipped(this_line)
    /\ ~Contains(this_line, <<"C","R","E","A","T","E"," ","T","A","B","L","E">>)
    /\ ~in_create_table
    /\ StartsWith(this_line, <<"I","n","s","e","r","t"," ","i","n","t","o">>)
    /\ ~EndsWith(this_line, <<";">>)
    /\ in_insert_statement' = TRUE
    /\ current_insert_lines' = <<this_original_line>>
    /\ UNCHANGED <<fn_vars, sample_vars, current_table_lines, in_create_table, def_outfile,
                   inserts_outfile>>

\* if in_insert_statement, the line does not end the statement
AccumulateInsertLine ==
    /\ ReadLine
    /\ ~IsSkipped(this_line)
    /\ ~Contains(this_line, <<"C","R","E","A","T","E"," ","T","A","B","L","E">>)
    /\ ~in_create_table
    /\ ~StartsWith(this_line, <<"I","n","s","e","r","t"," ","i","n","t","o">>)
    /\ in_insert_statement
    /\ ~EndsWith(this_line, <<")",";">>)
    /\ current_insert_lines' = Append(current_insert_lines, this_original_line)
    /\ UNCHANGED <<fn_vars, sample_vars, current_table_lines, in_create_table, in_insert_statement,
                   def_outfile, inserts_outfile>>

\* if in_insert_statement, the line ends it: convert_multi_line_insert and write
FlushInsert ==
    /\ stage = "reading"
    /\ file # <<>>
    /\ ~IsSkipped(this_line)
    /\ ~Contains(this_line, <<"C","R","E","A","T","E"," ","T","A","B","L","E">>)
    /\ ~in_create_table
    /\ ~StartsWith(this_line, <<"I","n","s","e","r","t"," ","i","n","t","o">>)
    /\ in_insert_statement
    /\ EndsWith(this_line, <<")",";">>)
    /\ file' = Tail(file)
    /\ conversion_stats' =
           [conversion_stats EXCEPT !.lines_processed = @ + 1,
                                    !.inserts_processed = @ + 1]
    /\ inserts_outfile' = Append(inserts_outfile,
           convert_multi_line_insert(Append(current_insert_lines, this_original_line)))
    /\ in_insert_statement' = FALSE
    /\ current_insert_lines' = <<>>
    /\ UNCHANGED <<fn_vars, sample_vars, current_table_lines, in_create_table, def_outfile>>

\* if line.startswith('SET DEFINE OFF')
SetDefineOff ==
    /\ ReadLine
    /\ ~IsSkipped(this_line)
    /\ ~Contains(this_line, <<"C","R","E","A","T","E"," ","T","A","B","L","E">>)
    /\ ~in_create_table
    /\ ~StartsWith(this_line, <<"I","n","s","e","r","t"," ","i","n","t","o">>)
    /\ ~in_insert_statement
    /\ StartsWith(this_line, <<"S","E","T"," ","D","E","F","I","N","E"," ","O","F","F">>)
    /\ def_outfile' = Append(def_outfile,
           <<"-","-"," ","S","E","T"," ","D","E","F","I","N","E"," ","O","F","F"," ","(","O","r","a","c","l","e"," ","s","p","e","c","i","f","i","c",","," ","n","o","t"," ","n","e","e","d","e","d"," ","i","n"," ","S","Q","L"," ","S","e","r","v","e","r",")">>)
    /\ UNCHANGED <<fn_vars, sample_vars, current_table_lines, current_insert_lines, in_create_table,
                   in_insert_statement, inserts_outfile>>

\* no branch of the loop body takes the line
OtherLine ==
    /\ ReadLine
    /\ ~IsSkipped(this_line)
    /\ ~Contains(this_line, <<"C","R","E","A","T","E"," ","T","A","B","L","E">>)
    /\ ~in_create_table
    /\ ~StartsWith(this_line, <<"I","n","s","e","r","t"," ","i","n","t","o">>)
    /\ ~in_insert_statement
    /\ ~StartsWith(this_line, <<"S","E","T"," ","D","E","F","I","N","E"," ","O","F","F">>)
    /\ UNCHANGED <<fn_vars, sample_vars, current_table_lines, current_insert_lines, in_create_table,
                   in_insert_statement, def_outfile, inserts_outfile>>

\* end of input: the files are closed, whatever the buffers hold
EndOfInput ==
    /\ stage = "reading"
    /\ file = <<>>
    /\ stage' = "done"
    /\ UNCHANGED <<given, result, file_vars, sample_vars>>

Next ==
    \/ SkipLine
    \/ StartTable
    \/ AccumulateTableLine
    \/ FlushTable
    \/ SingleLineInsert
    \/ StartInsert
    \/ AccumulateInsertLine
    \/ FlushInsert
    \/ SetDefineOff
    \/ OtherLine
    \/ EndOfInput

Spec == Init /\ [][Next]_vars

(***************************************************************************)
(* SpecSample: extract_sample_inserts of sample.py.  The input file is     *)
(* read line by line, each action is one branch of the loop body; the      *)
(* output file is written in one step when the input has been read.        *)
(***************************************************************************)

\* the most lines an input file of the sample extractor has
MaxSampleLines == 3

\* the largest samples_per_table
MaxSamples == 2

\* the argument input_file
input_file == <<"i","n",".","s","q","l">>

\* the lines the input files are made of: statements of tables A and B, a
\* statement with the value 'Gold', a statement of table CATEGORY, a batch
\* separator, a comment and a statement written in lower case
SampleLines ==
    {<<"I","N","S","E","R","T"," ","I","N","T","O"," ","[","A","D","M","I","N","]",".","[","A","]"," ","(","[","I","D","]",")"," ","V","A","L","U","E","S"," ","(","1",")">>,
     <<"I","N","S","E","R","T"," ","I","N","T","O"," ","[","A","D","M","I","N","]",".","[","A","]"," ","(","[","I","D","]",")"," ","V","A","L","U","E","S"," ","(","2",")">>,
     <<"I","N","S","E","R","T"," ","I","N","T","O"," ","[","A","D","M","I","N","]",".","[","B","]"," ","(","[","I","D","]",","," ","[","N","A","M","E","]",")"," ","V","A","L","U","E","S"," ","(","1",","," ","'","x","'",")">>,
     <<"I","N","S","E","R","T"," ","I","N","T","O"," ","[","A","D","M","I","N","]",".","[","B","]"," ","(","[","I","D","]",","," ","[","N","A","M","E","]",")"," ","V","A","L","U","E","S"," ","(","2",","," ","'","G","o","l","d","'",")">>,
     <<"I","N","S","E","R","T"," ","I","N","T","O"," ","[","A","D","M","I","N","]",".","[","C","A","T","E","G","O","R","Y","]"," ","(","[","I","D","]",")"," ","V","A","L","U","E","S"," ","(","1",")">>,
     <<"G","O">>,
     <<"-","-"," ","T","a","b","l","e",":"," ","A">>,
     <<"i","n","s","e","r","t"," ","i","n","t","o"," ","[","A","D","M","I","N","]",".","[","A","]"," ","(","[","I","D","]",")"," ","v","a","l","u","e","s"," ","(","9",")">>}

SampleFiles == UNION {[1..n -> SampleLines] : n \in 0..MaxSampleLines}

\* the variables of the converter, which the sample extractor does not have
converter_vars == <<result, conversion_stats, current_table_lines, current_insert_lines,
                    in_create_table, in_insert_statement, def_outfile, inserts_outfile>>

SampleInit ==
    /\ given \in [lines : SampleFiles, samples_per_table : 0..MaxSamples]
    /\ file = given.lines
    /\ stage = "reading"
    /\ result = <<>>
    /\ conversion_stats = [tables_processed |-> 0, inserts_processed |-> 0,
                           lines_processed |-> 0]
    /\ current_table_lines = <<>>
    /\ current_insert_lines = <<>>
    /\ in_create_table = FALSE
    /\ in_insert_statement = FALSE
    /\ def_outfile = <<>>
    /\ inserts_outfile = <<>>
    /\ SampleIdle

\* any(keyword in line.upper() for keyword in ['CREATE TABLE', 'IF EXISTS',
\* 'DROP TABLE', 'GO'])
IsDefinitionLine(line) ==
    \E keyword \in {<<"C","R","E","A","T","E"," ","T","A","B","L","E">>, <<"I","F"," ","E","X","I","S","T","S">>, <<"D","R","O","P"," ","T","A","B","L","E">>, <<"G","O">>} :
        Contains(Upper(line), keyword)

\* INSERT INTO \[ADMIN\]\.\[([^\]]+)\]  at i: the index of the bracket that
\* closes group 1, 0 when there is no match
SampleTableClose(s, i) ==
    LET a == i + Len(<<"I","N","S","E","R","T"," ","I","N","T","O"," ","[">> \o schema_name \o <<"]",".","[">>)
        q == FindFrom(s, <<"]">>, a)
    IN  IF MatchAt(s, i, <<"I","N","S","E","R","T"," ","I","N","T","O"," ","[">> \o schema_name \o <<"]",".","[">>) /\ q > a THEN q ELSE 0

\* re.search(pattern, line): the places where the pattern matches
SampleMatches(line) == {i \in 1..Len(line) : SampleTableClose(line, i) # 0}

\* match.group(1) of the leftmost match
SampleTableName(line) ==
    LET i == MinOf(SampleMatches(line))
    IN  SubSeq(line, i + Len(<<"I","N","S","E","R","T"," ","I","N","T","O"," ","[">> \o schema_name \o <<"]",".","[">>),
               SampleTableClose(line, i) - 1)

\* the line of the iteration about to run, stripped
sample_line == Strip(Head(file))

\* if not line or line.startswith('--'): continue
SampleSkipComment ==
    /\ stage = "reading"
    /\ file # <<>>
    /\ (sample_line = <<>> \/ StartsWith(sample_line, <<"-","-">>))
    /\ file' = Tail(file)
    /\ UNCHANGED <<given, stage, converter_vars, sample_vars>>

\* if any(keyword in line.upper() ...): continue
SampleSkipDefinition ==
    /\ stage = "reading"
    /\ file # <<>>
    /\ ~(sample_line = <<>> \/ StartsWith(sample_line, <<"-","-">>))
    /\ IsDefinitionLine(sample_line)
    /\ file' = Tail(file)
    /\ UNCHANGED <<given, stage, converter_vars, sample_vars>>

\* a line that starts with INSERT INTO and matches the pattern: the table is
\* entered on its first statement, the statement is kept below the limit
SampleInsert ==
    /\ stage = "reading"
    /\ file # <<>>
    /\ ~(sample_line = <<>> \/ StartsWith(sample_line, <<"-","-">>))
    /\ ~IsDefinitionLine(sample_line)
    /\ StartsWith(Upper(sample_line), <<"I","N","S","E","R","T"," ","I","N","T","O">>)
    /\ SampleMatches(sample_line) # {}
    /\ LET table_name == SampleTableName(sample_line)
           known == table_name \in DOMAIN table_inserts
           inserts == IF known THEN table_inserts[table_name] ELSE <<>>
           kept == IF Len(inserts) < given.samples_per_table
                   THEN Append(inserts, sample_line) ELSE inserts
       IN  /\ table_inserts' =
                  [t \in DOMAIN table_inserts \cup {table_name} |->
                      IF t = table_name THEN kept ELSE table_inserts[t]]
           /\ table_order' = IF known THEN table_order ELSE Append(table_order, table_name)
    /\ file' = Tail(file)
    /\ UNCHANGED <<given, stage, converter_vars, outfile>>

\* any other line: no branch takes it
SampleOtherLine ==
    /\ stage = "reading"
    /\ file # <<>>
    /\ ~(sample_line = <<>> \/ StartsWith(sample_line, <<"-","-">>))
    /\ ~IsDefinitionLine(sample_line)
    /\ ~(StartsWith(Upper(sample_line), <<"I","N","S","E","R","T"," ","I","N","T","O">>) /\ SampleMatches(sample_line) # {})
    /\ file' = Tail(file)
    /\ UNCHANGED <<given, stage, converter_vars, sample_vars>>

RECURSIVE SampleBlocks(_, _)
\* for table_name in table_order: the lines written for the tables
SampleBlocks(order, inserts_of) ==
    IF order = <<>> THEN <<>>
    ELSE LET inserts == inserts_of[Head(order)]
         IN  (IF inserts = <<>> THEN <<>>
              ELSE <<<<"-","-"," ","T","a","b","l","e",":"," ">> \o Head(order) \o <<" ","(">> \o FormatInt(Len(inserts))
                         \o <<" ","s","a","m","p","l","e","(","s",")",")">>>> \o inserts \o <<<<>>>>)
             \o SampleBlocks(Tail(order), inserts_of)

RECURSIVE TotalSamples(_, _)
\* sum(len(inserts) for inserts in table_inserts.values())
TotalSamples(order, inserts_of) ==
    IF order = <<>> THEN 0
    ELSE Len(inserts_of[Head(order)]) + TotalSamples(Tail(order), inserts_of)

\* the write block: header, the tables in table_order, summary
WriteSample ==
    /\ stage = "reading"
    /\ file = <<>>
    /\ outfile' =
           << <<"-","-"," ","S","a","m","p","l","e"," ","I","N","S","E","R","T"," ","s","t","a","t","e","m","e","n","t","s"," ","e","x","t","r","a","c","t","e","d"," ","f","r","o","m"," ">> \o input_file,
              <<"-","-"," ","T","h","i","s"," ","f","i","l","e"," ","c","o","n","t","a","i","n","s"," ","s","a","m","p","l","e"," ","d","a","t","a"," ","f","o","r"," ","e","a","c","h"," ","t","a","b","l","e"," ","(","m","a","x"," ">>
                  \o FormatInt(given.samples_per_table) \o <<" ","s","a","m","p","l","e","s"," ","p","e","r"," ","t","a","b","l","e",")">>,
              <<"-","-"," ","T","a","b","l","e"," ","d","e","f","i","n","i","t","i","o","n","s"," ","(","C","R","E","A","T","E"," ","T","A","B","L","E"," ","s","t","a","t","e","m","e","n","t","s",")"," ","a","r","e"," ","e","x","c","l","u","d","e","d">>,
              <<"-","-"," ","G","e","n","e","r","a","t","e","d"," ","a","u","t","o","m","a","t","i","c","a","l","l","y"," ","f","o","r"," ","t","e","s","t","i","n","g"," ","a","n","d"," ","r","e","f","e","r","e","n","c","e"," ","p","u","r","p","o","s","e","s">>,
              <<>> >>
           \o SampleBlocks(table_order, table_inserts)
           \o << <<"-","-"," ","S","u","m","m","a","r","y">>,
                 <<"-","-"," ","T","o","t","a","l"," ","t","a","b","l","e","s"," ","w","i","t","h"," ","d","a","t","a",":"," ">> \o FormatInt(Len(table_order)),
                 <<"-","-"," ","T","o","t","a","l"," ","s","a","m","p","l","e"," ","I","N","S","E","R","T"," ","s","t","a","t","e","m","e","n","t","s",":"," ">>
                     \o FormatInt(TotalSamples(table_order, table_inserts)),
                 <<"-","-"," ","S","a","m","p","l","e","s"," ","p","e","r"," ","t","a","b","l","e",":"," ">> \o FormatInt(given.samples_per_table) >>
    /\ stage' = "done"
    /\ UNCHANGED <<given, file, converter_vars, table_inserts, table_order>>

SampleNext ==
    \/ SampleSkipComment
    \/ SampleSkipDefinition
    \/ SampleInsert
    \/ SampleOtherLine
    \/ WriteSample

SpecSample == SampleInit /\ [][SampleNext]_vars

\* the line is an INSERT INTO [ADMIN].[table] statement
IsInsertOf(l, table) == StartsWith(l, <<"I","N","S","E","R","T"," ","I","N","T","O"," ","[","A","D","M","I","N","]",".","[">> \o table \o <<"]">>)

IsInsertStatement(l) == StartsWith(l, <<"I","N","S","E","R","T"," ","I","N","T","O"," ","[","A","D","M","I","N","]",".","[">>)

\* the table of an INSERT INTO [ADMIN].[table] statement
TableOf(l) == SubSeq(l, 22, FindFrom(l, <<"]">>, 22) - 1)

RECURSIVE FirstTables(_, _)
\* the tables of the statements in lines, in the order of their first
\* statement, after those of seen
FirstTables(lines, seen) ==
    IF lines = <<>> THEN <<>>
    ELSE IF IsInsertStatement(Head(lines)) /\ TableOf(Head(lines)) \notin seen
    THEN <<TableOf(Head(lines))>>
             \o FirstTables(Tail(lines), seen \cup {TableOf(Head(lines))})
    ELSE FirstTables(Tail(lines), seen)

\* the first n elements of a sequence
FirstN(s, n) == SubSeq(s, 1, IF n < Len(s) THEN n ELSE Len(s))

RECURSIVE SamplesOf(_, _, _)
\* for each table of order, the first n of its statements in lines
SamplesOf(order, lines, n) ==
    IF order = <<>> THEN <<>>
    ELSE FirstN(SelectSeq(lines, LAMBDA l : IsInsertOf(l, Head(order))), n)
             \o SamplesOf(Tail(order), lines, n)

\* C16: for every table extract_sample_inserts writes exactly the first
\* min(N, k) INSERT statements of the table in input order, N being
\* samples_per_table and k the number of input lines that are INSERT INTO
\* [ADMIN].[table] statements of the table; the tables come in the order of
\* their first INSERT in the input, and no table gets more than N statements.
C16_FirstSamplesPerTable ==
    stage = "done" =>
        SelectSeq(outfile, IsInsertStatement) =
            SamplesOf(FirstTables(given.lines, {}), given.lines, given.samples_per_table)

(***************************************************************************)
(* Claims on Spec                                                          *)
(***************************************************************************)

\* the column lines of a definitions file
ColumnLines(out) == SelectSeq(out, LAMBDA l : StartsWith(l, <<" "," "," "," ","[">>))

\* the drop guard of table T1, in lines
T1Guard ==
    << <<"I","F"," ","E","X","I","S","T","S","(","S","E","L","E","C","T"," ","n","a","m","e"," ","F","R","O","M"," ","s","y","s",".","s","y","s","o","b","j","e","c","t","s"," ","W","H","E","R","E"," ","N","a","m","e"," ","="," ","N","'","T","1","'"," ","A","N","D"," ","x","t","y","p","e"," ","="," ","N","'","U","'",")">>,
       <<"B","E","G","I","N">>,
       <<" "," "," "," ","D","R","O","P"," ","T","A","B","L","E"," ","[","A","D","M","I","N","]",".","[","T","1","]">>,
       <<"E","N","D">> >>

\* C10: the definition block CREATE TABLE "ADMIN"."T1" ( "ID" NUMBER(10),
\* "NAME" VARCHAR2(50) DEFAULT 'x' ), however it is wrapped across physical
\* lines, gives a table definition with exactly the two columns ID INT and
\* NAME NVARCHAR(50) DEFAULT 'x', in order, preceded by the drop guard.
C10_DefinitionBlockTwoColumns ==
    (stage = "done" /\ given \in T1Files) =>
        /\ ColumnLines(def_outfile) =
               <<<<" "," "," "," ","[","I","D","]"," ","I","N","T",",">>, <<" "," "," "," ","[","N","A","M","E","]"," ","N","V","A","R","C","H","A","R","(","5","0",")"," ","D","E","F","A","U","L","T"," ","'","x","'">>>>
        /\ \E i \in 1..Len(def_outfile) :
               /\ i + 3 <= Len(def_outfile)
               /\ SubSeq(def_outfile, i, i + 3) = T1Guard
               /\ \A k \in 1..i : ~StartsWith(def_outfile[k], <<" "," "," "," ","[">>)


\* the number of lines read so far
LinesRead == Len(given) - Len(file)

\* the index of the first line of f after the first that ends with ); (the
\* line after the last when there is none)
FirstTerminator(f) ==
    LET hits == {i \in 2..Len(f) : EndsWith(Strip(f[i]), <<")",";">>)}
    IN  IF hits = {} THEN Len(f) + 1 ELSE MinOf(hits)

\* C11: in an insert continuation every input line after the insert-start
\* line is accumulated into the unit until the first line that ends with );
\* on that line the unit, all the physical lines since the insert-start line,
\* is rewritten, exactly one line is written to the inserts stream and the
\* assembler is back in SCANNING.
C11_InsertUnitAccumulated ==
    given \in InsertFiles =>
        /\ (1 <= LinesRead /\ LinesRead < FirstTerminator(given)) =>
               /\ in_insert_statement
               /\ ~in_create_table
               /\ current_insert_lines = SubSeq(given, 1, LinesRead)
               /\ inserts_outfile = <<>>
        /\ LinesRead = FirstTerminator(given) =>
               /\ inserts_outfile =
                      <<convert_multi_line_insert(SubSeq(given, 1, LinesRead))>>
               /\ ~in_insert_statement
               /\ ~in_create_table
               /\ current_insert_lines = <<>>

\* C12: comment lines (starting with -- or REM) and blank lines are discarded
\* only in SCANNING; when one arrives inside a definition block or an insert
\* continuation it is appended to the buffer of the block as it is.
C12_CommentsKeptInsideBlocks ==
    [][(stage = "reading" /\ file # <<>> /\ file' = Tail(file) /\ IsSkipped(this_line)) =>
           /\ in_create_table =>
                  current_table_lines' \in
                      {Append(current_table_lines, this_line),
                       Append(current_table_lines, this_original_line)}
           /\ (in_insert_statement /\ ~in_create_table) =>
                  current_insert_lines' = Append(current_insert_lines, this_original_line)
           /\ (~in_create_table /\ ~in_insert_statement) =>
                  UNCHANGED <<current_table_lines, current_insert_lines>>]_vars


\* C17: a new block begins only when no other block is pending: the
\* assembler is in exactly one of SCANNING, IN_DEFINITION and
\* IN_INSERT_CONTINUATION, so in_create_table and in_insert_statement are
\* never both true, and a definition-start or insert-start line never
\* discards or overlaps an accumulation buffer that was not flushed.
C17_OneBlockAtATime ==
    /\ [](~(in_create_table /\ in_insert_statement))
    /\ [][(StartTable \/ StartInsert) =>
              (current_table_lines = <<>> /\ current_insert_lines = <<>>)]_vars

\* the lines of f that start a definition block, and those that start an
\* insert statement
DefinitionStarts(f) ==
    SelectSeq(f, LAMBDA l : ~IsSkipped(Strip(l)) /\ Contains(l, <<"C","R","E","A","T","E"," ","T","A","B","L","E">>))

InsertStarts(f) ==
    SelectSeq(f, LAMBDA l : StartsWith(Strip(l), <<"I","n","s","e","r","t"," ","i","n","t","o">>)
                            /\ ~Contains(l, <<"C","R","E","A","T","E"," ","T","A","B","L","E">>))

\* C18: every block that is started is emitted: at the end of the input
\* each definition-start line and each insert-start line read has given its
\* rewritten unit in its output stream and both buffers are empty.
C18_EveryBlockIsEmitted ==
    stage = "done" =>
        /\ current_table_lines = <<>>
        /\ current_insert_lines = <<>>
        /\ Len(SelectSeq(def_outfile, LAMBDA l : StartsWith(l, <<"-","-"," ","T","a","b","l","e",":"," ">>)))
               = Len(DefinitionStarts(given))
        /\ Len(inserts_outfile) = Len(InsertStarts(given))

\* C19: after any prefix of the input lines_processed is the number of
\* physical lines read so far, discarded comment and blank lines included,
\* inserts_processed is the number of lines written to the inserts stream,
\* commented-out malformed statements included, and neither counter ever
\* decreases.
C19_CountersFollowStreams ==
    /\ [](/\ conversion_stats.lines_processed = LinesRead
          /\ conversion_stats.inserts_processed = Len(inserts_outfile))
    /\ [][/\ conversion_stats'.lines_processed >= conversion_stats.lines_processed
          /\ conversion_stats'.inserts_processed >= conversion_stats.inserts_processed]_vars

C19_Witness ==
    /\ stage = "done"
    /\ given = <<InsertStart, <<"-","-"," ","a"," ","n","o","t","e">>, InsertEnd, MalformedInsert>>
    /\ conversion_stats.lines_processed = 4
    /\ conversion_stats.inserts_processed = 2
    /\ StartsWith(inserts_outfile[2], <<"-","-"," ","S","K","I","P","P","E","D"," ","M","A","L","F","O","R","M","E","D"," ","L","I","N","E",":"," ">>)

\* the names of the column-definition lines of f, each line being "NAME" type
ColumnLineNames(f) ==
    LET column_lines == SelectSeq(f, LAMBDA l : StartsWith(l, <<"\"">>))
    IN  [i \in 1..Len(column_lines) |->
            SubSeq(column_lines[i], 2, FindFrom(column_lines[i], <<"\"">>, 2) - 1)]

\* the names of the columns of a definitions file
EmittedColumnNames(out) ==
    [i \in 1..Len(ColumnLines(out)) |->
        SubSeq(ColumnLines(out)[i], 6, FindFrom(ColumnLines(out)[i], <<"]">>, 6) - 1)]

\* C20: in a definition block only the storage clause lines are dropped:
\* every column-definition line gives exactly one column of the emitted
\* table, in source order, whatever the name of the column (STORAGE_ID,
\* LOGGING_LEVEL).
C20_EveryColumnLineIsAColumn ==
    (stage = "done" /\ given \in T2Files) =>
        EmittedColumnNames(def_outfile) = ColumnLineNames(given)

\* the target type of each type signature of ColumnTypes
TargetType(type) ==
    CASE type = <<"D","A","T","E">>         -> <<"D","A","T","E","T","I","M","E","2">>
      [] type = <<"V","A","R","C","H","A","R","2","(","5","0",")">> -> <<"N","V","A","R","C","H","A","R","(","5","0",")">>
      [] type = <<"N","U","M","B","E","R","(","1","0",")">>   -> <<"I","N","T">>
      [] type = <<"T","I","M","E","S","T","A","M","P","(","6",")">> -> <<"D","A","T","E","T","I","M","E","2">>
      [] type = <<"N","U","M","B","E","R","(","2","2",",","2",")">> -> <<"D","E","C","I","M","A","L","(","2","2",",","2",")">>

\* C24: for every column line of a definition block the emitted column is the
\* translation of its type signature followed by its trailing constraint text
\* unchanged: the constraint neither changes the target type nor is dropped
\* (DATE NOT NULL gives DATETIME2 NOT NULL, VARCHAR2(50) NOT NULL gives
\* NVARCHAR(50) NOT NULL).
C24_ConstraintFollowsTranslatedType ==
    stage = "done" =>
        \A type \in ColumnTypes, constraint \in ColumnConstraints, last \in BOOLEAN :
            given = T3Block(type, constraint, last) =>
                /\ Len(ColumnLines(def_outfile)) >= 2
                /\ ColumnLines(def_outfile)[2] =
                       <<" "," "," "," ","[","C","R","E","A","T","E","D","]"," ">> \o TargetType(type) \o constraint
                           \o (IF last THEN <<>> ELSE <<",">>)

=============================================================================
